---- MODULE Spec2Model ----
(***************************************************************************)
(* State-machine model of the e-commerce backend: the cart controller,     *)
(* the cart routes' middleware, the checkout / payment-success handlers    *)
(* and the login lockout.                                                  *)
(*                                                                         *)
(* Every request handler is written as a step function on (database d,     *)
(* request r): one step per await, i.e. one database (or payment           *)
(* processor) call together with the synchronous code that follows it up   *)
(* to the next await.  Run composes the steps of one handler from start to *)
(* response.  Under Spec requests are served one at a time (Run applied    *)
(* atomically); under the concurrent specifications the steps of requests  *)
(* in flight interleave.                                                   *)
(***************************************************************************)
EXTENDS Integers, Sequences, FiniteSets, TLC

Users == {"u1", "u2"}
Products == {"p1", "p2"}
Slots == {"r1", "r2"}
Usernames == {"alice", "mallory"}
Passwords == {"right1", "wrong1"}

\* Bounds of the model.
MaxStock == 2
MaxQty == 2
MaxCarts == 1
MaxLineId == 2
MaxSessions == 1
\* The cart documents the collection may hold while requests interleave.
MaxRaceCarts == 2
\* The user documents the collection may hold.
MaxUsers == 3
\* The stock of the well-stocked product of SpecBig.
BigStock == 11
\* Failed logins that lock an account, and the minutes the lock lasts.
MaxAttempts == 5
LockMinutes == 30
\* The clock advances by TickMinutes, up to MaxNow minutes.
TickMinutes == 15
MaxNow == 60

VARIABLES
  products,   \* Product collection: product id -> [exists, stock]
  carts,      \* Cart collection in insertion order: Seq of [user, items]
  sessions,   \* payment processor's checkout sessions: Seq of [user, cart, lines, paid]
  tokens,     \* users holding a valid bearer token
  req,        \* requests in flight: slot -> request record (locals of the handler)
  resp,       \* the last response sent: [op, status, msg]
  lockouts,   \* accountLockouts: username -> [attempts, lockedUntil]
  now,        \* Date.now(), in minutes
  users       \* User collection in insertion order: Seq of [username, password, role]

vars == <<products, carts, sessions, tokens, req, resp, lockouts, now, users>>

\* Product.price, in thousandths of the currency unit (the schema admits any
\* number >= 0.01, not only whole cents); no route of this model changes it.
PriceInputs == {10, 15, 1005}
ProductPrice == [p \in Products |-> IF p = "p1" THEN 1005 ELSE 15]

\* The database as the handlers see it; held = line ids of requests in flight.
DB == [products |-> products, carts |-> carts, sessions |-> sessions,
       lockouts |-> lockouts, now |-> now, users |-> users, prices |-> ProductPrice,
       held |-> UNION {{req[s].items[j].id : j \in DOMAIN req[s].items} : s \in Slots}]

-----------------------------------------------------------------------------
(* Values of a request's quantity field as JSON / form data delivers it.   *)

NoQty == [kind |-> "undef", n |-> 0]
QtyInputs ==
  {NoQty} \cup {[kind |-> "num", n |-> k] : k \in 0..MaxQty}
          \cup {[kind |-> "str", n |-> k] : k \in 1..MaxQty}

\* Number(quantity), and the number a comparison such as stock < quantity uses.
ToNumber(q) == q.n

\* JS truthiness of the quantity field: undefined and 0 are falsy, "1" is truthy.
Truthy(q) == q.kind # "undef" /\ q.n # 0

RECURSIVE Pow10Above(_, _)
Pow10Above(n, p) == IF n < p THEN p ELSE Pow10Above(n, p * 10)

\* a + quantity in JS: numeric addition for a number, string concatenation
\* (read back as a number by the comparison and by the schema's cast) for a
\* string of decimal digits.
Concat(a, n) == a * Pow10Above(n, 10) + n
JsPlus(a, q) == IF q.kind = "str" THEN Concat(a, q.n) ELSE a + q.n

-----------------------------------------------------------------------------
(* Documents and queries.                                                  *)

NoProduct == [exists |-> FALSE, stock |-> 0]
\* bcrypt.hashSync(password, 8): the stored form of a password.
HashSync(pw) == [bcrypt |-> pw]
NoHash == [bcrypt |-> ""]
\* The account registered before the model starts.
InitUsers == <<[username |-> "alice", password |-> HashSync("right1"), role |-> "user"]>>

\* accountLockouts.get(username) || { attempts: 0, lockedUntil: 0 }
NoLockout == [attempts |-> 0, lockedUntil |-> 0]

\* A JSON value of a request body as the product routes look at it:
\*   undef      the field is absent
\*   num, str   a number / a numeric string, Number(v) = n
\*   frac       a number that is not an integer, Number(v) = n + 0.5
\*   nan        any other value, Number(v) is NaN
\* price counts in thousandths, stock in units.
Undef == [kind |-> "undef", n |-> 0]
IsNum(v) == v.kind \in {"num", "str", "frac"}
\* Number(v) < 0, Number(v) <= 0
Negative(v) == IsNum(v) /\ v.n < 0
NotPositive(v) == IsNum(v) /\ (v.n < 0 \/ (v.n = 0 /\ v.kind # "frac"))
NoBody == [name |-> "undef", description |-> "undef", category |-> "undef",
           image |-> "undef", price |-> Undef, stock |-> Undef]

Base ==
  [op |-> "idle", pc |-> "", user |-> "", password |-> "", newPassword |-> "", role |-> "",
   uid |-> 0, cartId |-> 0, pid |-> "", qty |-> NoQty,
   lid |-> 0, sid |-> 0, confirm |-> FALSE,
   cid |-> 0, isNew |-> FALSE, items |-> <<>>, stock |-> 0,
   lines |-> <<>>, issues |-> <<>>, k |-> 0, status |-> 0, msg |-> "",
   totalItems |-> 0, totalPrice |-> 0, itemCount |-> 0,
   secret |-> FALSE, sig |-> FALSE, event |-> "", bodyCartId |-> 0, body |-> NoBody,
   valid |-> FALSE]

Idle == Base
NoResp == [op |-> "idle", status |-> 0, msg |-> ""]

FirstOf(S) == IF S = {} THEN 0 ELSE CHOOSE i \in S : \A j \in S : i <= j

\* Cart.findOne({ user }) or Cart.findOne({ _id: cartId, user }): the index of
\* the first matching cart document, 0 for null.
FindCart(d, u, cartId) ==
  IF cartId # 0
    THEN IF cartId \in DOMAIN d.carts /\ d.carts[cartId].user = u THEN cartId ELSE 0
    ELSE FirstOf({i \in DOMAIN d.carts : d.carts[i].user = u})

\* Cart.findOne({ "items._id": id, user })
FindCartByItem(d, u, id) ==
  FirstOf({i \in DOMAIN d.carts :
             /\ d.carts[i].user = u
             /\ \E j \in DOMAIN d.carts[i].items : d.carts[i].items[j].id = id})

\* Cart.findOne({ "items._id": id })
FindAnyCartByItem(d, id) ==
  FirstOf({i \in DOMAIN d.carts :
             \E j \in DOMAIN d.carts[i].items : d.carts[i].items[j].id = id})

\* .populate("items.product"): each line joined with its product document.
Populate(d, items) ==
  [i \in DOMAIN items |->
     [id |-> items[i].id, product |-> items[i].product, quantity |-> items[i].quantity,
      exists |-> d.products[items[i].product].exists,
      stock |-> d.products[items[i].product].stock]]

Strip(items) ==
  [i \in DOMAIN items |->
     [id |-> items[i].id, product |-> items[i].product, quantity |-> items[i].quantity]]

\* cart.items.findIndex(item => item.product.toString() === productId); 0 for -1.
FindIndex(items, pid) == FirstOf({i \in DOMAIN items : items[i].product = pid})

\* cart.items.id(id); 0 for null.
ItemById(items, id) == FirstOf({i \in DOMAIN items : items[i].id = id})

RECURSIVE SelectItems(_, _)
SelectItems(items, keep) ==
  IF items = <<>> THEN <<>>
  ELSE IF Head(items).id \in keep THEN <<Head(items)>> \o SelectItems(Tail(items), keep)
  ELSE SelectItems(Tail(items), keep)

\* A fresh subdocument _id: one that no stored or in-flight line carries.
UsedLineIds(d, r) ==
  UNION {{d.carts[c].items[j].id : j \in DOMAIN d.carts[c].items} : c \in DOMAIN d.carts}
    \cup d.held \cup {r.items[j].id : j \in DOMAIN r.items}
NewLineId(d, r) ==
  CHOOSE i \in 1..(Cardinality(UsedLineIds(d, r)) + 1) :
    i \notin UsedLineIds(d, r) /\ \A j \in 1..(i - 1) : j \in UsedLineIds(d, r)

\* cart.save(): insert of a new document, or write-back of the loaded
\* document's items (read-modify-write, no locking).
CartSave(d, r) ==
  IF r.isNew
    THEN [d EXCEPT !.carts = Append(d.carts, [user |-> r.user, items |-> Strip(r.items)])]
    ELSE [d EXCEPT !.carts[r.cid].items = Strip(r.items)]

\* The handler suspends at its next await / sends its response.
To(d, r, pc) == [d |-> d, r |-> [r EXCEPT !.pc = pc]]
Done(d, r, st, m) == [d |-> d, r |-> [r EXCEPT !.pc = "done", !.status = st, !.msg = m]]

-----------------------------------------------------------------------------
(* POST /api/cart : createCart                                             *)

CreateCartReq(u) == [Base EXCEPT !.op = "createCart", !.pc = "begin", !.user = u]

CreateCartStep(d, r) ==
  CASE r.pc = "begin" -> To(d, r, "find")
    [] r.pc = "find" ->
         LET c == FindCart(d, r.user, 0)
         IN IF c # 0 THEN Done(d, [r EXCEPT !.cid = c], 200, "Cart already exists")
            ELSE To(d, [r EXCEPT !.isNew = TRUE], "save")
    [] r.pc = "save" ->
         Done(CartSave(d, r), [r EXCEPT !.cid = Len(d.carts) + 1], 200, "Cart created")

-----------------------------------------------------------------------------
(* POST /api/cart/items : validateCartData, validateProductExists,         *)
(* validateCartSize, addToCart                                             *)

AddToCartReq(u, cartId, pid, q) ==
  [Base EXCEPT !.op = "addToCart", !.pc = "begin", !.user = u, !.cartId = cartId,
               !.pid = pid, !.qty = q]

\* A validation that lets every quantity through.
ValidQuantity_Any(q) == TRUE

\* validateCartData: a quantity that is present must be an integer 1..999
\* (kind "frac": a number that is not an integer, n + 0.5).
ValidQuantity(q) ==
  q.kind # "undef" => q.kind # "frac" /\ ToNumber(q) >= 1 /\ ToNumber(q) <= 999

\* A handler that leaves the line's quantity as it was.
NewQuantity_Old(old, q) == old

\* A handler that overwrites the line's quantity with the requested one.
NewQuantity_Requested(old, q) == ToNumber(q)

\* The quantity the line gets when the product is already in the cart.
NewQuantity(old, q) == JsPlus(old, q)

\* The in-memory cart after the controller's lines 75-94; ok = FALSE on its 400.
AddToItems(d, r, stock) ==
  LET i == FindIndex(r.items, r.pid)
  IN IF i # 0
       THEN IF NewQuantity(r.items[i].quantity, r.qty) > stock
              THEN [ok |-> FALSE, items |-> r.items]
              ELSE [ok |-> TRUE,
                    items |-> [r.items EXCEPT
                                 ![i].quantity = NewQuantity(r.items[i].quantity, r.qty)]]
       ELSE [ok |-> TRUE,
             items |-> Append(r.items, [id |-> NewLineId(d, r), product |-> r.pid,
                                        quantity |-> ToNumber(r.qty)])]

\* A handler that stores the lazily created cart before it looks at the product.
AddToCartStep_CreateFirst(d, r) ==
  CASE r.pc = "begin" ->
         IF r.pid # "" /\ ValidQuantity(r.qty)
           THEN To(d, r, "findCart")
           ELSE Done(d, r, 400, "Validation failed")
    [] r.pc = "findCart" ->
         LET c == FindCart(d, r.user, r.cartId)
             n == [r EXCEPT !.cid = c, !.isNew = (c = 0),
                            !.items = IF c = 0 THEN <<>> ELSE d.carts[c].items]
         IN IF c = 0
              THEN To(CartSave(d, n), [n EXCEPT !.cid = Len(d.carts) + 1, !.isNew = FALSE],
                      "findProduct")
              ELSE To(d, n, "findProduct")
    [] r.pc = "findProduct" ->
         LET p == d.products[r.pid]
             a == AddToItems(d, r, p.stock)
         IN IF ~p.exists THEN Done(d, r, 404, "Product not found")
            ELSE IF p.stock < ToNumber(r.qty)
              THEN Done(d, [r EXCEPT !.stock = p.stock], 400, "Insufficient stock")
            ELSE IF ~a.ok
              THEN Done(d, [r EXCEPT !.stock = p.stock], 400, "Cannot add more items")
            ELSE To(d, [r EXCEPT !.stock = p.stock, !.items = a.items], "save")
    [] r.pc = "save" -> Done(CartSave(d, r), r, 200, "Item added to cart")

AddToCartStep(d, r) ==
  CASE r.pc = "begin" ->
         IF r.pid # "" /\ ValidQuantity(r.qty)
           THEN To(d, r, "validateProductExists")
           ELSE Done(d, r, 400, "Validation failed")
    \* validateProductExists, then validateCartSize (its limit of 50 lines is
    \* beyond the carts of this model: it always calls next()), then the
    \* controller's synchronous checks up to its first await.
    [] r.pc = "validateProductExists" ->
         LET p == d.products[r.pid]
         IN IF ~p.exists THEN Done(d, r, 404, "Product not found")
            ELSE IF p.stock = 0 THEN Done(d, r, 400, "Product out of stock")
            ELSE IF Truthy(r.qty) /\ p.stock < ToNumber(r.qty)
              THEN Done(d, r, 400, "Insufficient stock")
            ELSE IF ~Truthy(r.qty) THEN Done(d, r, 400, "productId & quantity required")
            ELSE IF ToNumber(r.qty) <= 0
              THEN Done(d, r, 400, "Quantity must be greater than 0")
            ELSE To(d, r, "findCart")
    [] r.pc = "findCart" ->
         LET c == FindCart(d, r.user, r.cartId)
         IN To(d, [r EXCEPT !.cid = c, !.isNew = (c = 0),
                            !.items = IF c = 0 THEN <<>> ELSE d.carts[c].items],
               "findProduct")
    [] r.pc = "findProduct" ->
         LET p == d.products[r.pid]
             a == AddToItems(d, r, p.stock)
         IN IF ~p.exists THEN Done(d, r, 404, "Product not found")
            ELSE IF p.stock < ToNumber(r.qty)
              THEN Done(d, [r EXCEPT !.stock = p.stock], 400, "Insufficient stock")
            ELSE IF ~a.ok
              THEN Done(d, [r EXCEPT !.stock = p.stock], 400, "Cannot add more items")
            ELSE To(d, [r EXCEPT !.stock = p.stock, !.items = a.items], "save")
    [] r.pc = "save" ->
         Done(CartSave(d, r),
              [r EXCEPT !.cid = IF r.isNew THEN Len(d.carts) + 1 ELSE r.cid],
              200, "Item added to cart")

-----------------------------------------------------------------------------
(* GET /api/cart : getCart                                                 *)

GetCartReq(u, cartId) ==
  [Base EXCEPT !.op = "getCart", !.pc = "begin", !.user = u, !.cartId = cartId]

\* A handler that filters nothing.
ValidItems_All(items) == items

\* cart.items.filter(item => item.product)
ValidItems(items) == SelectItems(items, {items[i].id : i \in {j \in DOMAIN items : items[j].exists}})

GetCartStep(d, r) ==
  CASE r.pc = "begin" -> To(d, r, "find")
    [] r.pc = "find" ->
         LET c == FindCart(d, r.user, r.cartId)
             items == IF c = 0 THEN <<>> ELSE Populate(d, d.carts[c].items)
             valid == ValidItems(items)
         IN IF c = 0 THEN Done(d, r, 200, "no cart")
            ELSE IF Len(valid) # Len(items)
              THEN To(d, [r EXCEPT !.cid = c, !.items = valid, !.lines = Strip(valid)], "save")
            ELSE Done(d, [r EXCEPT !.cid = c, !.lines = Strip(valid)], 200, "")
    [] r.pc = "save" -> Done(CartSave(d, r), r, 200, "cleaned")

-----------------------------------------------------------------------------
(* GET /api/cart/summary : getCartSummary                                  *)

GetCartSummaryReq(u) == [Base EXCEPT !.op = "getCartSummary", !.pc = "begin", !.user = u]

\* A rounding that drops the fraction.
MathRound_Floor(n, den) == n \div den

\* Math.round(n / den) for n >= 0: the nearest integer, halves upwards.
MathRound(n, den) == (2 * n + den) \div (2 * den)

\* validItems.reduce((sum, item) => sum + item.quantity, 0)
RECURSIVE SumQuantity(_)
SumQuantity(items) ==
  IF items = <<>> THEN 0 ELSE Head(items).quantity + SumQuantity(Tail(items))

\* validItems.reduce((sum, item) => sum + item.product.price * item.quantity, 0),
\* in thousandths.
RECURSIVE SumPrice(_, _)
SumPrice(d, items) ==
  IF items = <<>> THEN 0
  ELSE d.prices[Head(items).product] * Head(items).quantity + SumPrice(d, Tail(items))

\* totalPrice is sent as Math.round(totalPrice * 100) / 100: a whole number of
\* hundredths, kept here as that number.
GetCartSummaryStep(d, r) ==
  CASE r.pc = "begin" -> To(d, r, "find")
    [] r.pc = "find" ->
         LET c == FindCart(d, r.user, 0)
             valid == IF c = 0 THEN <<>> ELSE ValidItems(Populate(d, d.carts[c].items))
         IN IF c = 0 THEN Done(d, r, 200, "no cart")
            ELSE Done(d, [r EXCEPT !.cid = c,
                                   !.totalItems = SumQuantity(valid),
                                   !.totalPrice = MathRound(SumPrice(d, valid), 10),
                                   !.itemCount = Len(valid)],
                      200, "")

-----------------------------------------------------------------------------
(* PUT /api/cart/items/:id : validateCartData, validateCartOwnership, the  *)
(* route's stock check, updateCartItem                                     *)

UpdateCartItemReq(u, lid, q) ==
  [Base EXCEPT !.op = "updateCartItem", !.pc = "begin", !.user = u, !.lid = lid, !.qty = q]

\* The route's own check (cartRoutes.js 340-365): true when it answers 400.
RouteStockCheckFails(d, r) ==
  LET c == FindAnyCartByItem(d, r.lid)
      items == IF c = 0 THEN <<>> ELSE Populate(d, d.carts[c].items)
      i == ItemById(items, r.lid)
  IN c # 0 /\ i # 0 /\ items[i].exists /\ items[i].stock < ToNumber(r.qty)

\* The controller's check of the new quantity against the product's stock.
ExceedsStock(q, stock) == ToNumber(q) > stock

\* A handler that increments the line instead of setting it.
SetQuantity_Add(items, i, q) == [items EXCEPT ![i].quantity = @ + ToNumber(q)]

\* item.quantity = quantity (the schema casts it to a number)
SetQuantity(items, i, q) == [items EXCEPT ![i].quantity = ToNumber(q)]

UpdateCartItemStep(d, r) ==
  CASE r.pc = "begin" ->
         IF ValidQuantity(r.qty) THEN To(d, r, "ownership")
         ELSE Done(d, r, 400, "Validation failed")
    [] r.pc = "ownership" ->
         IF FindCartByItem(d, r.user, r.lid) = 0 THEN Done(d, r, 403, "Access denied")
         ELSE IF ~Truthy(r.qty) THEN Done(d, r, 400, "Valid quantity required")
         ELSE To(d, r, "stockCheck")
    [] r.pc = "stockCheck" ->
         IF RouteStockCheckFails(d, r) THEN Done(d, r, 400, "Insufficient stock")
         ELSE IF ToNumber(r.qty) < 1 THEN Done(d, r, 400, "Valid quantity required")
         ELSE To(d, r, "find")
    [] r.pc = "find" ->
         LET c == FindCartByItem(d, r.user, r.lid)
             items == IF c = 0 THEN <<>> ELSE Populate(d, d.carts[c].items)
             i == ItemById(items, r.lid)
         IN IF c = 0 THEN Done(d, r, 404, "Cart item not found")
            ELSE IF i = 0 THEN Done(d, r, 404, "Item not found")
            ELSE IF ~items[i].exists THEN Done(d, r, 404, "Product no longer available")
            ELSE IF ExceedsStock(r.qty, items[i].stock)
              THEN Done(d, [r EXCEPT !.stock = items[i].stock], 400, "Insufficient stock")
            ELSE To(d, [r EXCEPT !.cid = c, !.stock = items[i].stock,
                                 !.items = SetQuantity(items, i, r.qty)],
                    "save")
    [] r.pc = "save" -> Done(CartSave(d, r), r, 200, "Cart item updated")

-----------------------------------------------------------------------------
(* DELETE /api/cart/items/:id : validateCartOwnership, removeFromCart      *)

RemoveFromCartReq(u, lid) ==
  [Base EXCEPT !.op = "removeFromCart", !.pc = "begin", !.user = u, !.lid = lid]

\* cart.items.pull(id)
Pull(items, id) == SelectItems(items, {items[i].id : i \in DOMAIN items} \ {id})

RemoveFromCartStep(d, r) ==
  CASE r.pc = "begin" -> To(d, r, "ownership")
    [] r.pc = "ownership" ->
         IF FindCartByItem(d, r.user, r.lid) = 0 THEN Done(d, r, 403, "Access denied")
         ELSE To(d, r, "find")
    [] r.pc = "find" ->
         LET c == FindCartByItem(d, r.user, r.lid)
         IN IF c = 0 THEN Done(d, r, 404, "Cart item not found")
            ELSE IF ItemById(d.carts[c].items, r.lid) = 0
              THEN Done(d, r, 404, "Item not found in cart")
            ELSE To(d, [r EXCEPT !.cid = c, !.items = Pull(d.carts[c].items, r.lid)], "save")
    [] r.pc = "save" -> Done(CartSave(d, r), r, 200, "Item removed")

-----------------------------------------------------------------------------
(* DELETE /api/cart/:cartId? : validateCartOwnership (for a cartId in the  *)
(* body), the confirmation header, clearCart                               *)
(* confirm: the request carries X-Confirm-Clear with the value 'true'      *)

ClearCartReq(u, cartId, confirm) ==
  [Base EXCEPT !.op = "clearCart", !.pc = "begin", !.user = u, !.cartId = cartId,
               !.confirm = confirm]

ClearCartBodyReq(u, cartId, body, confirm) ==
  [ClearCartReq(u, cartId, confirm) EXCEPT !.bodyCartId = body]

\* A handler that treats an already-empty cart as an error.
ClearCartStep_RefuseEmpty(d, r) ==
  CASE r.pc = "begin" ->
         IF r.bodyCartId # 0 THEN To(d, r, "ownership")
         ELSE IF r.confirm THEN To(d, r, "find")
         ELSE Done(d, r, 400, "Confirmation required")
    [] r.pc = "ownership" ->
         IF FindCart(d, r.user, r.bodyCartId) = 0 THEN Done(d, r, 403, "Access denied")
         ELSE IF r.confirm THEN To(d, r, "find")
         ELSE Done(d, r, 400, "Confirmation required")
    [] r.pc = "find" ->
         LET c == FindCart(d, r.user, r.cartId)
         IN IF c = 0 THEN Done(d, r, 404, "Cart not found")
            ELSE IF d.carts[c].items = <<>> THEN Done(d, r, 400, "Cart is already empty")
            ELSE To(d, [r EXCEPT !.cid = c, !.items = <<>>], "save")
    [] r.pc = "save" -> Done(CartSave(d, r), r, 200, "Cart cleared")

ClearCartStep(d, r) ==
  CASE r.pc = "begin" ->
         IF r.bodyCartId # 0 THEN To(d, r, "ownership")
         ELSE IF r.confirm THEN To(d, r, "find")
         ELSE Done(d, r, 400, "Confirmation required")
    [] r.pc = "ownership" ->
         IF FindCart(d, r.user, r.bodyCartId) = 0 THEN Done(d, r, 403, "Access denied")
         ELSE IF r.confirm THEN To(d, r, "find")
         ELSE Done(d, r, 400, "Confirmation required")
    [] r.pc = "find" ->
         LET c == FindCart(d, r.user, r.cartId)
         IN IF c = 0 THEN Done(d, r, 404, "Cart not found")
            ELSE To(d, [r EXCEPT !.cid = c, !.items = <<>>], "save")
    [] r.pc = "save" -> Done(CartSave(d, r), r, 200, "Cart cleared")

-----------------------------------------------------------------------------
(* DELETE /api/products/:id : the confirmation header, deleteProduct       *)
(* (sent with an admin's token and a well-formed id); confirm: the request *)
(* carries X-Confirm-Delete with the value 'true'                          *)

DeleteProductReq(pid, confirm) ==
  [Base EXCEPT !.op = "deleteProduct", !.pc = "begin", !.pid = pid, !.confirm = confirm]

\* A route that does not look at the header.
DeleteProductStep_NoConfirm(d, r) ==
  CASE r.pc = "begin" -> To(d, r, "delete")
    [] r.pc = "delete" ->
         IF ~d.products[r.pid].exists THEN Done(d, r, 404, "Product not found")
         ELSE Done([d EXCEPT !.products[r.pid] = NoProduct], r, 200, "Product deleted")

DeleteProductStep(d, r) ==
  CASE r.pc = "begin" ->
         IF r.confirm THEN To(d, r, "delete")
         ELSE Done(d, r, 400, "Deletion confirmation required")
    \* Product.findByIdAndDelete(id)
    [] r.pc = "delete" ->
         IF ~d.products[r.pid].exists THEN Done(d, r, 404, "Product not found")
         ELSE Done([d EXCEPT !.products[r.pid] = NoProduct], r, 200, "Product deleted")

-----------------------------------------------------------------------------
(* POST /api/products : validateProductData, addProduct (sent with an      *)
(* admin's token)                                                          *)

\* name, description:  undef | empty "" | ok | bad (not a string, too long,
\*                     characters outside the allowed set)
\* category:           undef | ok | bad (not one of the six)
\* image:              undef | ok | bad (not a string, too large) |
\*                     badformat (a string that is neither URL nor data:image/)
PriceValues ==
  {Undef, [kind |-> "nan", n |-> 0]}
    \cup {[kind |-> "num", n |-> k] : k \in {0 - 1000, 0, 5, 15, 1005}}
    \cup {[kind |-> "str", n |-> k] : k \in {0, 15}}
StockValues ==
  {Undef, [kind |-> "nan", n |-> 0]}
    \cup {[kind |-> "num", n |-> k] : k \in (0 - 1)..MaxStock}
    \cup {[kind |-> "str", n |-> k] : k \in {0 - 1, 1}}
    \cup {[kind |-> "frac", n |-> k] : k \in {0 - 1, 0}}
ProductBodies ==
  [name : {"undef", "empty", "ok", "bad"}, description : {"undef", "empty", "ok"},
   category : {"undef", "ok", "bad"}, image : {"undef", "ok", "badformat"},
   price : PriceValues, stock : StockValues]

\* pid: the _id the new document gets.
AddProductReq(pid, body) ==
  [Base EXCEPT !.op = "addProduct", !.pc = "begin", !.pid = pid, !.body = body]

\* validateProductData: errors.length > 0
ProductDataErrors(b) ==
  \/ b.name \in {"empty", "bad"}
  \/ b.description \in {"empty", "bad"}
  \/ b.price.kind # "undef" /\ (~IsNum(b.price) \/ NotPositive(b.price))
  \/ b.stock.kind # "undef" /\ (~IsNum(b.stock) \/ Negative(b.stock) \/ b.stock.kind = "frac")
  \/ b.category = "bad"
  \/ b.image = "bad"

\* The schema's validators on save: price min 0.01, stock min 0, the
\* image's format (required fields, lengths and the category enum have been
\* checked by then).
ProductValidationError(b) ==
  \/ b.price.n < 10
  \/ Negative(b.stock)
  \/ b.image = "badformat"

\* Number(stock) || 0
StoredStock(v) == IF IsNum(v) /\ v.kind # "frac" THEN v.n ELSE 0

\* A handler that stores whatever it is given.
AddProductStep_Unchecked(d, r) ==
  CASE r.pc = "begin" -> To(d, r, "save")
    [] r.pc = "save" ->
         Done([d EXCEPT !.products[r.pid] = [exists |-> TRUE, stock |-> r.body.stock.n]],
              r, 201, "Product added successfully")

AddProductStep(d, r) ==
  CASE r.pc = "begin" ->
         LET b == r.body
         IN IF ProductDataErrors(b) THEN Done(d, r, 400, "Validation failed")
            ELSE IF b.name = "undef" \/ b.description = "undef" \/ b.price.kind = "undef"
                      \/ (b.price.n = 0 /\ b.price.kind = "num")
              THEN Done(d, r, 400, "Name, description & price are required")
            ELSE IF NotPositive(b.price) THEN Done(d, r, 400, "Price must be greater than 0")
            ELSE IF Negative(b.stock) THEN Done(d, r, 400, "Stock cannot be negative")
            ELSE To(d, r, "save")
    \* product.save(): a ValidationError is answered with 400
    [] r.pc = "save" ->
         IF ProductValidationError(r.body) THEN Done(d, r, 400, "ValidationError")
         ELSE Done([d EXCEPT !.products[r.pid] =
                               [exists |-> TRUE, stock |-> StoredStock(r.body.stock)]],
                   r, 201, "Product added successfully")

-----------------------------------------------------------------------------
(* POST /api/cart/validate                                                 *)

ValidateCartReq(u) == [Base EXCEPT !.op = "validateCart", !.pc = "begin", !.user = u]

\* A loop that reports a line only when its product is out of stock.
ValidateLine_OnlyOutOfStock(item) ==
  IF ~item.exists
    THEN [ok |-> FALSE, issue |-> <<[kind |-> "not found", product |-> item.product, n |-> 0]>>]
  ELSE IF item.stock = 0
    THEN [ok |-> FALSE,
          issue |-> <<[kind |-> "out of stock", product |-> item.product, n |-> 0]>>]
  ELSE [ok |-> TRUE, issue |-> <<>>]

\* What the route's loop does with one populated line: whether it pushes it
\* to validItems, and the issue it records.
ValidateLine(item) ==
  IF ~item.exists
    THEN [ok |-> FALSE, issue |-> <<[kind |-> "not found", product |-> item.product, n |-> 0]>>]
  ELSE IF item.stock = 0
    THEN [ok |-> FALSE,
          issue |-> <<[kind |-> "out of stock", product |-> item.product, n |-> 0]>>]
  ELSE IF item.stock < item.quantity
    THEN [ok |-> FALSE,
          issue |-> <<[kind |-> "only", product |-> item.product, n |-> item.stock]>>]
  ELSE [ok |-> TRUE, issue |-> <<>>]

RECURSIVE ValidateIssues(_)
ValidateIssues(items) ==
  IF items = <<>> THEN <<>> ELSE ValidateLine(Head(items)).issue \o ValidateIssues(Tail(items))

ValidateValidItems(items) == SelectSeq(items, LAMBDA it : ValidateLine(it).ok)

ValidateCartStep(d, r) ==
  CASE r.pc = "begin" -> To(d, r, "find")
    [] r.pc = "find" ->
         LET c == FindCart(d, r.user, 0)
             items == IF c = 0 THEN <<>> ELSE Populate(d, d.carts[c].items)
             valid == ValidateValidItems(items)
         IN IF c = 0 \/ Len(items) = 0 THEN Done(d, [r EXCEPT !.valid = FALSE], 200, "Cart is empty")
            ELSE Done(d, [r EXCEPT !.cid = c,
                                   !.valid = (Len(ValidateIssues(items)) = 0),
                                   !.issues = ValidateIssues(items),
                                   !.totalItems = Len(items),
                                   !.itemCount = Len(valid),
                                   !.totalPrice = MathRound(SumPrice(d, valid), 10)],
                      200,
                      IF Len(ValidateIssues(items)) = 0 THEN "Cart is valid for checkout"
                      ELSE "Cart has issues that need to be resolved")

-----------------------------------------------------------------------------
(* POST /api/payments/create-checkout-session : createCheckoutSession      *)
(* (the payment processor is configured and answers)                       *)

CheckoutReq(u, cartId) ==
  [Base EXCEPT !.op = "createCheckoutSession", !.pc = "begin", !.user = u, !.cartId = cartId]

\* A loop that keeps the cart quantity of a line above the stock.
CheckoutLine_NoClamp(item) ==
  IF ~item.exists
    THEN [line |-> <<>>, issue |-> <<[kind |-> "not found", product |-> item.product, n |-> 0]>>]
  ELSE IF item.stock < item.quantity /\ item.stock = 0
    THEN [line |-> <<>>,
          issue |-> <<[kind |-> "out of stock", product |-> item.product, n |-> 0]>>]
  ELSE [line |-> <<[product |-> item.product, quantity |-> item.quantity]>>,
        issue |-> IF item.stock < item.quantity
                    THEN <<[kind |-> "only", product |-> item.product, n |-> item.stock]>>
                    ELSE <<>>]

\* A loop that retains a line that is out of stock, at quantity 0.
CheckoutLine_KeepEmpty(item) ==
  IF ~item.exists
    THEN [line |-> <<>>, issue |-> <<[kind |-> "not found", product |-> item.product, n |-> 0]>>]
  ELSE IF item.stock < item.quantity
    THEN [line |-> <<[product |-> item.product, quantity |-> item.stock]>>,
          issue |-> <<[kind |-> IF item.stock = 0 THEN "out of stock" ELSE "only",
                       product |-> item.product, n |-> item.stock]>>]
  ELSE [line |-> <<[product |-> item.product, quantity |-> item.quantity]>>, issue |-> <<>>]

\* What the loop over cart.items does with one populated line: the line it
\* pushes to validItems (<<>> for none) and the advisory it pushes to issues.
CheckoutLine(item) ==
  IF ~item.exists
    THEN [line |-> <<>>, issue |-> <<[kind |-> "not found", product |-> item.product, n |-> 0]>>]
  ELSE IF item.stock < item.quantity
    THEN IF item.stock = 0
           THEN [line |-> <<>>,
                 issue |-> <<[kind |-> "out of stock", product |-> item.product, n |-> 0]>>]
           ELSE [line |-> <<[product |-> item.product, quantity |-> item.stock]>>,
                 issue |-> <<[kind |-> "only", product |-> item.product, n |-> item.stock]>>]
  ELSE [line |-> <<[product |-> item.product, quantity |-> item.quantity]>>, issue |-> <<>>]

RECURSIVE CheckoutLines(_)
CheckoutLines(items) ==
  IF items = <<>> THEN <<>> ELSE CheckoutLine(Head(items)).line \o CheckoutLines(Tail(items))

RECURSIVE CheckoutIssues(_)
CheckoutIssues(items) ==
  IF items = <<>> THEN <<>> ELSE CheckoutLine(Head(items)).issue \o CheckoutIssues(Tail(items))

\* A handler that saves the cart as the session sells it: dropped lines
\* removed, clamped quantities written.
CheckoutStep_WriteBack(d, r) ==
  CASE r.pc = "begin" -> To(d, r, "find")
    [] r.pc = "find" ->
         LET c == FindCart(d, r.user, r.cartId)
             items == IF c = 0 THEN <<>> ELSE Populate(d, d.carts[c].items)
         IN IF c = 0 \/ Len(items) = 0 THEN Done(d, r, 400, "Cart is empty")
            ELSE IF Len(CheckoutLines(items)) = 0
              THEN Done([d EXCEPT !.carts[c].items = <<>>],
                        [r EXCEPT !.cid = c, !.issues = CheckoutIssues(items)],
                        400, "No items available for checkout")
            ELSE To(d, [r EXCEPT !.cid = c, !.lines = CheckoutLines(items),
                                 !.issues = CheckoutIssues(items)], "stripe")
    [] r.pc = "stripe" ->
         Done([d EXCEPT !.sessions = Append(d.sessions,
                          [user |-> r.user, cart |-> r.cid, lines |-> r.lines, paid |-> FALSE]),
                        !.carts[r.cid].items =
                          [j \in DOMAIN r.lines |->
                             [id |-> j, product |-> r.lines[j].product,
                              quantity |-> r.lines[j].quantity]]],
              [r EXCEPT !.sid = Len(d.sessions) + 1], 200,
              IF Len(r.issues) > 0 THEN "Some items were adjusted" ELSE "Checkout session created")

CheckoutStep(d, r) ==
  CASE r.pc = "begin" -> To(d, r, "find")
    [] r.pc = "find" ->
         LET c == FindCart(d, r.user, r.cartId)
             items == IF c = 0 THEN <<>> ELSE Populate(d, d.carts[c].items)
         IN IF c = 0 \/ Len(items) = 0 THEN Done(d, r, 400, "Cart is empty")
            ELSE IF Len(CheckoutLines(items)) = 0
              THEN Done(d, [r EXCEPT !.cid = c, !.issues = CheckoutIssues(items)],
                        400, "No items available for checkout")
            ELSE To(d, [r EXCEPT !.cid = c, !.lines = CheckoutLines(items),
                                 !.issues = CheckoutIssues(items)], "stripe")
    \* stripe.checkout.sessions.create(sessionData)
    [] r.pc = "stripe" ->
         Done([d EXCEPT !.sessions = Append(d.sessions,
                          [user |-> r.user, cart |-> r.cid, lines |-> r.lines, paid |-> FALSE])],
              [r EXCEPT !.sid = Len(d.sessions) + 1], 200,
              IF Len(r.issues) > 0 THEN "Some items were adjusted" ELSE "Checkout session created")

-----------------------------------------------------------------------------
(* POST /api/payments/success : handlePaymentSuccess                       *)

PaymentSuccessReq(u, sid) ==
  [Base EXCEPT !.op = "handlePaymentSuccess", !.pc = "begin", !.user = u, !.sid = sid]

\* A handler that takes every session for paid.
SessionPaid_Always(d, sid) == TRUE

\* session.payment_status === 'paid'
SessionPaid(d, sid) == d.sessions[sid].paid

\* The guard of the loop body: item.product && item.product.stock >= item.quantity
Decrements(item) == item.exists /\ item.stock >= item.quantity

\* The next line from position k on whose stock the loop decrements; 0 for none.
NextDecrement(items, k) == FirstOf({i \in DOMAIN items : i >= k /\ Decrements(items[i])})

\* Product.findByIdAndUpdate(id, { $inc: { stock: -quantity } }, { new: true })
IncStock(d, pid, n) == [d EXCEPT !.products[pid].stock = @ + n]

\* A catch that gives back the stock of the lines already processed.
PaymentCatch_Rollback(d, r) ==
  LET back(p) == IF \E j \in DOMAIN r.lines : r.lines[j].product = p
                   THEN r.lines[CHOOSE j \in DOMAIN r.lines : r.lines[j].product = p].quantity
                   ELSE 0
  IN Done([d EXCEPT !.products = [p \in Products |->
                                    IF d.products[p].exists
                                      THEN [d.products[p] EXCEPT !.stock = @ + back(p)]
                                      ELSE d.products[p]]],
          r, 500, "TypeError")

\* catch (err) { res.status(500).json({ error: err.message }) }: nothing is
\* undone.
PaymentCatch(d, r) == Done(d, r, 500, "TypeError")

PaymentSuccessStep(d, r) ==
  CASE r.pc = "begin" ->
         IF r.sid = 0 THEN Done(d, r, 400, "Session ID is required") ELSE To(d, r, "retrieve")
    \* stripe.checkout.sessions.retrieve(sessionId) throws for an unknown id
    [] r.pc = "retrieve" ->
         IF r.sid \notin DOMAIN d.sessions THEN Done(d, r, 500, "No such checkout session")
         ELSE IF ~SessionPaid(d, r.sid) THEN Done(d, r, 400, "Payment not completed")
         ELSE To(d, r, "find")
    [] r.pc = "find" ->
         LET c == FindCart(d, d.sessions[r.sid].user, d.sessions[r.sid].cart)
             items == IF c = 0 THEN <<>> ELSE Populate(d, d.carts[c].items)
         IN IF c = 0 THEN Done(d, r, 404, "Cart not found")
            ELSE IF NextDecrement(items, 1) = 0
              THEN To(d, [r EXCEPT !.cid = c, !.items = items], "save")
            ELSE To(d, [r EXCEPT !.cid = c, !.items = items, !.k = NextDecrement(items, 1)],
                    "decrement")
    \* updatedProduct is null when the product was deleted meanwhile: reading
    \* updatedProduct.stock throws, the catch answers 500.
    [] r.pc = "decrement" ->
         LET item == r.items[r.k]
             d2 == IncStock(d, item.product, 0 - item.quantity)
             lines == Append(r.lines, [product |-> item.product, quantity |-> item.quantity])
         IN IF ~d.products[item.product].exists THEN PaymentCatch(d, r)
            ELSE IF NextDecrement(r.items, r.k + 1) = 0
              THEN To(d2, [r EXCEPT !.lines = lines], "save")
            ELSE To(d2, [r EXCEPT !.lines = lines, !.k = NextDecrement(r.items, r.k + 1)],
                    "decrement")
    [] r.pc = "save" ->
         Done(CartSave(d, [r EXCEPT !.items = <<>>]), r, 200, "Payment successful")

-----------------------------------------------------------------------------
(* POST /api/payments/webhook : handleWebhook (no bearer token)            *)

EventTypes == {"checkout.session.completed", "payment_intent.succeeded"}

\* secret: STRIPE_WEBHOOK_SECRET is set; sig: stripe.webhooks.constructEvent
\* accepts the body and its stripe-signature header; event, sid: the event's
\* type and the checkout session it is about.
HandleWebhookReq(secret, sig, event, sid) ==
  [Base EXCEPT !.op = "handleWebhook", !.pc = "begin", !.secret = secret, !.sig = sig,
               !.event = event, !.sid = sid]

\* A handler that fulfils the order of a completed session: it empties the cart.
HandleWebhookStep_Fulfil(d, r) ==
  IF ~r.secret THEN Done(d, r, 400, "Webhook secret not configured")
  ELSE IF ~r.sig THEN Done(d, r, 400, "Webhook Error")
  ELSE IF r.event = "checkout.session.completed" /\ r.sid \in DOMAIN d.sessions
            /\ d.sessions[r.sid].cart \in DOMAIN d.carts
    THEN Done([d EXCEPT !.carts[d.sessions[r.sid].cart].items = <<>>], r, 200, "received")
  ELSE Done(d, r, 200, "received")

\* No await: the handler answers in one step; both branches of the switch
\* only log.
HandleWebhookStep(d, r) ==
  IF ~r.secret THEN Done(d, r, 400, "Webhook secret not configured")
  ELSE IF ~r.sig THEN Done(d, r, 400, "Webhook Error")
  ELSE Done(d, r, 200, "received")

-----------------------------------------------------------------------------
(* POST /api/auth/login : checkAccountLockout, validateAuth,               *)
(* trackFailedLogin, login (the rate limiter lets the request through)     *)

LoginReq(u, pw) ==
  [Base EXCEPT !.op = "login", !.pc = "begin", !.user = u, !.password = pw]

\* User.findOne({ username }): the account's password hash, NoHash for null.
UserPassword(d, u) ==
  IF \E i \in DOMAIN d.users : d.users[i].username = u
    THEN d.users[FirstOf({i \in DOMAIN d.users : d.users[i].username = u})].password
    ELSE NoHash

\* bcrypt.compareSync(password, hash)
CompareSync(pw, h) == h # NoHash /\ h = HashSync(pw)

\* lockoutInfo && lockoutInfo.lockedUntil > Date.now()
IsLocked(d, u) == d.lockouts[u].lockedUntil > d.now

\* A hook that keeps the failure record when a login succeeds.
TrackSend_KeepOnSuccess(d, r, st) ==
  IF st = 401
    THEN LET n == d.lockouts[r.user].attempts + 1
         IN [d EXCEPT !.lockouts[r.user] =
                        [attempts |-> n,
                         lockedUntil |-> IF n >= MaxAttempts THEN d.now + LockMinutes
                                         ELSE d.lockouts[r.user].lockedUntil]]
  ELSE d

\* A hook that starts counting afresh once a lock has expired.
TrackSend_ResetOnExpiry(d, r, st) ==
  IF st = 401
    THEN LET old == d.lockouts[r.user]
             n == IF old.lockedUntil # 0 /\ old.lockedUntil <= d.now THEN 1
                  ELSE old.attempts + 1
         IN [d EXCEPT !.lockouts[r.user] =
                        [attempts |-> n,
                         lockedUntil |-> IF n >= MaxAttempts THEN d.now + LockMinutes ELSE 0]]
  ELSE IF st = 200 THEN [d EXCEPT !.lockouts[r.user] = NoLockout]
  ELSE d

\* The res.send installed by trackFailedLogin, called with the response.
TrackSend(d, r, st) ==
  IF st = 401
    THEN LET n == d.lockouts[r.user].attempts + 1
         IN [d EXCEPT !.lockouts[r.user] =
                        [attempts |-> n,
                         lockedUntil |-> IF n >= MaxAttempts THEN d.now + LockMinutes
                                         ELSE d.lockouts[r.user].lockedUntil]]
  ELSE IF st = 200 THEN [d EXCEPT !.lockouts[r.user] = NoLockout]
  ELSE d

LoginStep(d, r) ==
  CASE r.pc = "begin" ->
         IF r.user # "" /\ IsLocked(d, r.user)
           THEN Done(d, r, 423, "Account temporarily locked")
         ELSE IF r.user = "" \/ r.password = ""
           THEN Done(d, r, 400, "Username and password are required")
         ELSE To(d, r, "findUser")
    [] r.pc = "findUser" ->
         IF ~CompareSync(r.password, UserPassword(d, r.user))
           THEN Done(TrackSend(d, r, 401), r, 401, "Invalid credentials")
           ELSE Done(TrackSend(d, r, 200), r, 200, "Login successful")

-----------------------------------------------------------------------------
(* POST /api/auth/register, POST /api/auth/create-admin,                   *)
(* PUT /api/auth/profile                                                   *)

\* A lookup that never finds the username.
UsernameTaken_Never(d, name, uid) == FALSE

\* User.findOne({ username }) / User.findOne({ username, _id: { $ne: userId } })
\* returns a document (uid = 0: no user is excluded).
UsernameTaken(d, name, uid) ==
  \E i \in DOMAIN d.users : i # uid /\ d.users[i].username = name

\* newUser.save(): the insert fails with a duplicate-key error when the
\* username is in the collection (username is a unique field).
UserInsert(d, doc) ==
  IF \E i \in DOMAIN d.users : d.users[i].username = doc.username
    THEN [ok |-> FALSE, d |-> d]
    ELSE [ok |-> TRUE, d |-> [d EXCEPT !.users = Append(d.users, doc)]]

\* User.findByIdAndUpdate(userId, { username }): "none" when no document has
\* the id, "dup" when the write hits the unique username of another document.
UserRename(d, uid, name) ==
  IF uid \notin DOMAIN d.users THEN [res |-> "none", d |-> d]
  ELSE IF name = "" THEN [res |-> "ok", d |-> d]
  ELSE IF \E i \in DOMAIN d.users : i # uid /\ d.users[i].username = name
    THEN [res |-> "dup", d |-> d]
  ELSE [res |-> "ok", d |-> [d EXCEPT !.users[uid].username = name]]

RegisterReq(name, pw, role) ==
  [Base EXCEPT !.op = "register", !.pc = "begin", !.user = name, !.password = pw,
               !.role = role]

RegisterStep(d, r) ==
  CASE r.pc = "begin" ->
         IF r.user = "" \/ r.password = ""
           THEN Done(d, r, 400, "Username and password are required")
           ELSE To(d, r, "find")
    [] r.pc = "find" ->
         IF UsernameTaken(d, r.user, 0) THEN Done(d, r, 400, "Username already taken")
         ELSE To(d, r, "save")
    [] r.pc = "save" ->
         LET w == UserInsert(d, [username |-> r.user, password |-> HashSync(r.password),
                                 role |-> IF r.role = "" THEN "user" ELSE r.role])
         IN IF w.ok THEN Done(w.d, r, 200, "User registered")
            ELSE Done(d, r, 500, "E11000 duplicate key error")

\* allow: ALLOW_ADMIN_CREATION === 'true'
CreateAdminReq(name, pw, allow) ==
  [Base EXCEPT !.op = "createAdmin", !.pc = "begin", !.user = name, !.password = pw,
               !.confirm = allow]

CreateAdminStep(d, r) ==
  CASE r.pc = "begin" ->
         IF r.user = "" \/ r.password = ""
           THEN Done(d, r, 400, "Username and password are required")
         ELSE IF ~r.confirm THEN Done(d, r, 403, "Admin creation disabled")
         ELSE To(d, r, "find")
    [] r.pc = "find" ->
         IF UsernameTaken(d, r.user, 0) THEN Done(d, r, 400, "Admin already exists")
         ELSE To(d, r, "save")
    [] r.pc = "save" ->
         LET w == UserInsert(d, [username |-> r.user, password |-> HashSync(r.password),
                                 role |-> "admin"])
         IN IF w.ok THEN Done(w.d, r, 200, "Admin created successfully")
            ELSE Done(d, r, 500, "E11000 duplicate key error")

\* uid: req.user.id of the bearer token; name = "": no username in the body.
UpdateProfileReq(uid, name) ==
  [Base EXCEPT !.op = "updateProfile", !.pc = "begin", !.uid = uid, !.user = name]

UpdateProfileStep(d, r) ==
  CASE r.pc = "begin" -> IF r.user = "" THEN To(d, r, "update") ELSE To(d, r, "find")
    [] r.pc = "find" ->
         IF UsernameTaken(d, r.user, r.uid) THEN Done(d, r, 400, "Username already taken")
         ELSE To(d, r, "update")
    [] r.pc = "update" ->
         LET w == UserRename(d, r.uid, r.user)
         IN IF w.res = "none" THEN Done(d, r, 404, "User not found")
            ELSE IF w.res = "dup" THEN Done(d, r, 500, "E11000 duplicate key error")
            ELSE Done(w.d, r, 200, "Profile updated successfully")

\* PUT /api/auth/change-password : the route's checks, changePassword.
\* uid: req.user.id of the bearer token.
PasswordInputs == Passwords \cup {"", "abc"}

ChangePasswordReq(uid, current, new) ==
  [Base EXCEPT !.op = "changePassword", !.pc = "begin", !.uid = uid,
               !.password = current, !.newPassword = new]

\* A route without the check that the two passwords differ.
ChangePasswordStep_NoSameCheck(d, r) ==
  CASE r.pc = "begin" ->
         IF r.password = "" \/ r.newPassword = ""
           THEN Done(d, r, 400, "Current password and new password are required")
         ELSE IF Len(r.newPassword) < 6 \/ Len(r.newPassword) > 100
           THEN Done(d, r, 400, "New password must be 6-100 characters long")
         ELSE To(d, r, "find")
    [] r.pc = "find" ->
         IF r.uid \notin DOMAIN d.users THEN Done(d, r, 404, "User not found")
         ELSE IF ~CompareSync(r.password, d.users[r.uid].password)
           THEN Done(d, r, 401, "Current password is incorrect")
         ELSE To(d, r, "update")
    [] r.pc = "update" ->
         IF r.uid \notin DOMAIN d.users THEN Done(d, r, 200, "Password changed successfully")
         ELSE Done([d EXCEPT !.users[r.uid].password = HashSync(r.newPassword)],
                   r, 200, "Password changed successfully")

ChangePasswordStep(d, r) ==
  CASE r.pc = "begin" ->
         IF r.password = "" \/ r.newPassword = ""
           THEN Done(d, r, 400, "Current password and new password are required")
         ELSE IF Len(r.newPassword) < 6 \/ Len(r.newPassword) > 100
           THEN Done(d, r, 400, "New password must be 6-100 characters long")
         ELSE IF r.password = r.newPassword
           THEN Done(d, r, 400, "New password must be different from current password")
         ELSE To(d, r, "find")
    \* User.findById(userId), bcrypt.compareSync, bcrypt.hashSync
    [] r.pc = "find" ->
         IF r.uid \notin DOMAIN d.users THEN Done(d, r, 404, "User not found")
         ELSE IF ~CompareSync(r.password, d.users[r.uid].password)
           THEN Done(d, r, 401, "Current password is incorrect")
         ELSE To(d, r, "update")
    \* User.findByIdAndUpdate(userId, { password: hashedNewPassword })
    [] r.pc = "update" ->
         IF r.uid \notin DOMAIN d.users THEN Done(d, r, 200, "Password changed successfully")
         ELSE Done([d EXCEPT !.users[r.uid].password = HashSync(r.newPassword)],
                   r, 200, "Password changed successfully")

-----------------------------------------------------------------------------
(* The handlers' steps, and a handler run from its start to its response.  *)

StepOp(d, r) ==
  CASE r.op = "createCart" -> CreateCartStep(d, r)
    [] r.op = "addToCart" -> AddToCartStep(d, r)
    [] r.op = "getCart" -> GetCartStep(d, r)
    [] r.op = "updateCartItem" -> UpdateCartItemStep(d, r)
    [] r.op = "removeFromCart" -> RemoveFromCartStep(d, r)
    [] r.op = "getCartSummary" -> GetCartSummaryStep(d, r)
    [] r.op = "clearCart" -> ClearCartStep(d, r)
    [] r.op = "createCheckoutSession" -> CheckoutStep(d, r)
    [] r.op = "handlePaymentSuccess" -> PaymentSuccessStep(d, r)
    [] r.op = "handleWebhook" -> HandleWebhookStep(d, r)
    [] r.op = "deleteProduct" -> DeleteProductStep(d, r)
    [] r.op = "addProduct" -> AddProductStep(d, r)
    [] r.op = "validateCart" -> ValidateCartStep(d, r)
    [] r.op = "login" -> LoginStep(d, r)
    [] r.op = "register" -> RegisterStep(d, r)
    [] r.op = "createAdmin" -> CreateAdminStep(d, r)
    [] r.op = "updateProfile" -> UpdateProfileStep(d, r)
    [] r.op = "changePassword" -> ChangePasswordStep(d, r)

RECURSIVE Run(_, _)
Run(d, r) == IF r.pc = "done" THEN [d |-> d, r |-> r]
             ELSE LET o == StepOp(d, r) IN Run(o.d, o.r)

\* A handler run from r up to its await named pc, or to its response.
RECURSIVE RunUntil(_, _, _)
RunUntil(d, r, pc) ==
  IF r.pc = "done" \/ r.pc = pc THEN [d |-> d, r |-> r]
  ELSE LET o == StepOp(d, r) IN RunUntil(o.d, o.r, pc)

InBounds(d) == Len(d.carts) <= MaxCarts /\ Len(d.sessions) <= MaxSessions

Response(r) == [op |-> r.op, status |-> r.status, msg |-> r.msg]

\* A request served with no other request in flight.
Serve(r0) ==
  /\ \A s \in Slots : req[s].op = "idle"
  /\ \E o \in {Run(DB, r0)} :
     /\ InBounds(o.d)
     /\ products' = o.d.products
     /\ carts' = o.d.carts
     /\ sessions' = o.d.sessions
     /\ lockouts' = o.d.lockouts
     /\ users' = o.d.users
     /\ resp' = Response(o.r)
     /\ UNCHANGED <<tokens, req, now>>

-----------------------------------------------------------------------------
(* Requests.                                                               *)

CreateCart(u) == u \in tokens /\ Serve(CreateCartReq(u))

AddToCart(u, cartId, pid, q) == u \in tokens /\ Serve(AddToCartReq(u, cartId, pid, q))

GetCart(u, cartId) == u \in tokens /\ Serve(GetCartReq(u, cartId))

GetCartSummary(u) == u \in tokens /\ Serve(GetCartSummaryReq(u))

ValidateCart(u) == u \in tokens /\ Serve(ValidateCartReq(u))

UpdateCartItem(u, lid, q) == u \in tokens /\ Serve(UpdateCartItemReq(u, lid, q))

RemoveFromCart(u, lid) == u \in tokens /\ Serve(RemoveFromCartReq(u, lid))

ClearCart(u, cartId, body, confirm) ==
  u \in tokens /\ Serve(ClearCartBodyReq(u, cartId, body, confirm))

CreateCheckoutSession(u, cartId) == u \in tokens /\ Serve(CheckoutReq(u, cartId))

HandlePaymentSuccess(u, sid) == u \in tokens /\ Serve(PaymentSuccessReq(u, sid))

HandleWebhook(secret, sig, event, sid) ==
  event \in EventTypes /\ Serve(HandleWebhookReq(secret, sig, event, sid))

\* The payment processor records the payment: payment_status = 'paid'.
MarkPaid(d, sid) == [d EXCEPT !.sessions[sid].paid = TRUE]

\* The customer completes the payment on the processor's hosted page.
StripePay(sid) ==
  /\ \A s \in Slots : req[s].op = "idle"
  /\ sid \in DOMAIN sessions /\ ~sessions[sid].paid
  /\ sessions' = MarkPaid(DB, sid).sessions
  /\ resp' = [op |-> "stripePay", status |-> 200, msg |-> ""]
  /\ UNCHANGED <<products, carts, tokens, req, lockouts, now, users>>

\* PUT /api/products/:id with { stock }: validateProductData admits an
\* integer 0..999999 and findByIdAndUpdate runs the schema's validators.
UpdateProductStock(pid, n) ==
  /\ \A s \in Slots : req[s].op = "idle"
  /\ products[pid].exists
  /\ products' = [products EXCEPT ![pid].stock = n]
  /\ resp' = [op |-> "updateProduct", status |-> 200, msg |-> ""]
  /\ UNCHANGED <<carts, sessions, tokens, req, lockouts, now, users>>

\* POST /api/products, by the admin.  The new document's _id is fresh: pid
\* is an id no product carries and, the ids of this model being tied to the
\* prices of ProductPrice, the one whose price the body asks for.
AddProduct(pid, body) ==
  /\ ~products[pid].exists
  /\ (IsNum(body.price) /\ body.price.n >= 10) => body.price.n = ProductPrice[pid]
  /\ Serve(AddProductReq(pid, body))

\* DELETE /api/products/:id, by the admin.
DeleteProduct(pid, confirm) == pid \in Products /\ Serve(DeleteProductReq(pid, confirm))

-----------------------------------------------------------------------------

ProductDocs == {NoProduct} \cup {[exists |-> TRUE, stock |-> n] : n \in 0..MaxStock}

InitStore(toks) ==
  /\ products \in [Products -> ProductDocs]
  /\ carts = <<>>
  /\ sessions = <<>>
  /\ tokens = toks
  /\ req = [s \in Slots |-> Idle]
  /\ resp = NoResp
  /\ lockouts = [a \in Usernames |-> NoLockout] /\ users = InitUsers
  /\ now = 0

Init == InitStore({"u1"})

\* The product routes, on a store whose carts stay empty (so that an id
\* free again after a delete is as good as a fresh one).
NextCatalog ==
  \/ \E u \in Users : CreateCart(u)
  \/ \E p \in Products, b \in ProductBodies : AddProduct(p, b)
  \/ \E p \in Products, n \in 0..MaxStock : UpdateProductStock(p, n)
  \/ \E p \in Products, confirm \in BOOLEAN : DeleteProduct(p, confirm)

SpecCatalog == Init /\ [][NextCatalog]_vars

\* Every route that reads or writes a cart, from filling it to the payment
\* callback, one request at a time.
NextLines ==
  \/ \E u \in Users, c \in 0..MaxCarts, p \in Products, q \in QtyInputs :
       AddToCart(u, c, p, q)
  \/ \E u \in Users, c \in 0..MaxCarts : GetCart(u, c)
  \/ \E u \in Users, l \in 1..MaxLineId, q \in QtyInputs : UpdateCartItem(u, l, q)
  \/ \E u \in Users, l \in 1..MaxLineId : RemoveFromCart(u, l)
  \/ \E u \in Users, c, b \in 0..MaxCarts, h \in BOOLEAN : ClearCart(u, c, b, h)
  \/ \E u \in Users, c \in 0..MaxCarts : CreateCheckoutSession(u, c)
  \/ \E i \in 1..MaxSessions : StripePay(i)
  \/ \E u \in Users, i \in 0..MaxSessions : HandlePaymentSuccess(u, i)

SpecLines == Init /\ [][NextLines]_vars

\* The cart routes and the admin's product routes, one request at a time.
Next ==
  \/ \E u \in Users : CreateCart(u)
  \/ \E u \in Users, c \in 0..MaxCarts, p \in Products, q \in QtyInputs :
       AddToCart(u, c, p, q)
  \/ \E u \in Users, c \in 0..MaxCarts : GetCart(u, c)
  \/ \E u \in Users : GetCartSummary(u)
  \/ \E u \in Users, l \in 1..MaxLineId, q \in QtyInputs : UpdateCartItem(u, l, q)
  \/ \E u \in Users, l \in 1..MaxLineId : RemoveFromCart(u, l)
  \/ \E u \in Users, c, b \in 0..MaxCarts, h \in BOOLEAN : ClearCart(u, c, b, h)
  \/ \E p \in Products, n \in 0..MaxStock : UpdateProductStock(p, n)
  \/ \E p \in Products, confirm \in BOOLEAN : DeleteProduct(p, confirm)

Spec == Init /\ [][Next]_vars

\* Filling a cart, the admin's product routes, checkout and payment, one
\* request at a time.
NextPay ==
  \/ \E u \in Users, c \in 0..MaxCarts, p \in Products, q \in QtyInputs :
       AddToCart(u, c, p, q)
  \/ \E p \in Products, n \in 0..MaxStock : UpdateProductStock(p, n)
  \/ \E p \in Products, confirm \in BOOLEAN : DeleteProduct(p, confirm)
  \/ \E u \in Users : ValidateCart(u)
  \/ \E u \in Users, c \in 0..MaxCarts : CreateCheckoutSession(u, c)
  \/ \E i \in 1..MaxSessions : StripePay(i)
  \/ \E u \in Users, i \in 0..MaxSessions : HandlePaymentSuccess(u, i)
  \/ \E secret, sig \in BOOLEAN, e \in EventTypes, i \in 1..MaxSessions :
       HandleWebhook(secret, sig, e, i)

SpecPay == Init /\ [][NextPay]_vars

-----------------------------------------------------------------------------
(* Requests in flight together: a handler runs from one await to the next  *)
(* without interruption, and other handlers run while it waits.             *)

\* A request arrives and its handler runs up to its first await.
Arrive(s, r0) ==
  /\ req[s].op = "idle"
  /\ \E o \in {StepOp(DB, r0)} :
       IF o.r.pc = "done"
         THEN resp' = Response(o.r) /\ UNCHANGED req
         ELSE req' = [req EXCEPT ![s] = o.r] /\ UNCHANGED resp
  /\ UNCHANGED <<products, carts, sessions, tokens, lockouts, now, users>>

\* The operation the handler in slot s awaits completes, and the handler
\* runs up to its next await or to its response.
Resume(s) ==
  /\ req[s].op # "idle"
  /\ \E o \in {StepOp(DB, req[s])} :
       /\ Len(o.d.carts) <= MaxRaceCarts /\ Len(o.d.users) <= MaxUsers
       /\ products' = o.d.products
       /\ carts' = o.d.carts
       /\ sessions' = o.d.sessions
       /\ lockouts' = o.d.lockouts
       /\ users' = o.d.users
       /\ IF o.r.pc = "done"
            THEN req' = [req EXCEPT ![s] = Idle] /\ resp' = Response(o.r)
            ELSE req' = [req EXCEPT ![s] = o.r] /\ UNCHANGED resp
  /\ UNCHANGED <<tokens, now>>

ArriveCreateCart(s, u) == u \in tokens /\ Arrive(s, CreateCartReq(u))

ArriveAddToCart(s, u, pid, q) == u \in tokens /\ Arrive(s, AddToCartReq(u, 0, pid, q))

ArrivePaymentSuccess(s, u, sid) == u \in tokens /\ Arrive(s, PaymentSuccessReq(u, sid))

\* create-cart and add-to-cart (without cartId) requests of a user in flight
\* together.
NextRaceCart ==
  \/ \E s \in Slots, u \in Users : ArriveCreateCart(s, u)
  \/ \E s \in Slots, u \in Users, p \in Products, q \in QtyInputs : ArriveAddToCart(s, u, p, q)
  \/ \E s \in Slots : Resume(s)

\* One product in stock, a signed-in user without a cart.
InitRaceCart ==
  /\ products = [p \in Products |->
                   IF p = "p1" THEN [exists |-> TRUE, stock |-> MaxStock] ELSE NoProduct]
  /\ carts = <<>>
  /\ sessions = <<>>
  /\ tokens = {"u1"}
  /\ req = [s \in Slots |-> Idle]
  /\ resp = NoResp
  /\ lockouts = [a \in Usernames |-> NoLockout] /\ users = InitUsers
  /\ now = 0

SpecRaceCart == InitRaceCart /\ [][NextRaceCart]_vars

\* Two customers have each put the same product in their cart, within its
\* stock, created a checkout session and paid.
InitRacePay ==
  \E n \in 1..MaxStock : \E q1, q2 \in 1..n :
    /\ products = [p \in Products |->
                     IF p = "p1" THEN [exists |-> TRUE, stock |-> n] ELSE NoProduct]
    /\ carts = << [user |-> "u1", items |-> <<[id |-> 1, product |-> "p1", quantity |-> q1]>>],
                  [user |-> "u2", items |-> <<[id |-> 2, product |-> "p1", quantity |-> q2]>>] >>
    /\ sessions = << [user |-> "u1", cart |-> 1, paid |-> TRUE,
                      lines |-> <<[product |-> "p1", quantity |-> q1]>>],
                     [user |-> "u2", cart |-> 2, paid |-> TRUE,
                      lines |-> <<[product |-> "p1", quantity |-> q2]>>] >>
    /\ tokens = {"u1", "u2"}
    /\ req = [s \in Slots |-> Idle]
    /\ resp = NoResp
    /\ lockouts = [a \in Usernames |-> NoLockout] /\ users = InitUsers
    /\ now = 0

\* Payment-success callbacks in flight together.
NextRacePay ==
  \/ \E s \in Slots, u \in Users, i \in DOMAIN sessions : ArrivePaymentSuccess(s, u, i)
  \/ \E s \in Slots : Resume(s)

SpecRacePay == InitRacePay /\ [][NextRacePay]_vars

\* A customer has put both products in the cart, within their stock, created
\* a checkout session and paid.
InitPayFail ==
  \E q1, q2 \in 1..MaxStock :
    /\ products = [p \in Products |-> [exists |-> TRUE, stock |-> MaxStock]]
    /\ carts = << [user |-> "u1", items |-> <<[id |-> 1, product |-> "p1", quantity |-> q1],
                                             [id |-> 2, product |-> "p2", quantity |-> q2]>>] >>
    /\ sessions = << [user |-> "u1", cart |-> 1, paid |-> TRUE,
                      lines |-> <<[product |-> "p1", quantity |-> q1],
                                  [product |-> "p2", quantity |-> q2]>>] >>
    /\ tokens = {"u1"}
    /\ req = [s \in Slots |-> Idle]
    /\ resp = NoResp
    /\ lockouts = [a \in Usernames |-> NoLockout] /\ users = InitUsers
    /\ now = 0

ArriveDeleteProduct(s, pid, confirm) ==
  pid \in Products /\ Arrive(s, DeleteProductReq(pid, confirm))

\* The payment-success callback and the admin's product delete in flight
\* together.
NextPayFail ==
  \/ \E s \in Slots, u \in Users, i \in DOMAIN sessions : ArrivePaymentSuccess(s, u, i)
  \/ \E s \in Slots, p \in Products, confirm \in BOOLEAN : ArriveDeleteProduct(s, p, confirm)
  \/ \E s \in Slots : Resume(s)

SpecPayFail == InitPayFail /\ [][NextPayFail]_vars

ArriveLogin(s, u, pw) == u \in Usernames /\ Arrive(s, LoginReq(u, pw))

\* Date.now() advances.
Tick ==
  /\ now + TickMinutes <= MaxNow
  /\ now' = now + TickMinutes
  /\ UNCHANGED <<products, carts, sessions, tokens, req, resp, lockouts, users>>

\* Nobody is signed in; alice is registered, mallory is not.
InitAuth ==
  /\ products = [p \in Products |-> NoProduct]
  /\ carts = <<>>
  /\ sessions = <<>>
  /\ tokens = {}
  /\ req = [s \in Slots |-> Idle]
  /\ resp = NoResp
  /\ lockouts = [a \in Usernames |-> NoLockout] /\ users = InitUsers
  /\ now = 0

\* Login requests in flight together while time passes.
NextAuth ==
  \/ \E s \in Slots, u \in Usernames, pw \in Passwords \cup {""} : ArriveLogin(s, u, pw)
  \/ \E s \in Slots : Resume(s)
  \/ Tick

SpecAuth == InitAuth /\ [][NextAuth]_vars

ArriveRegister(s, name, pw, role) == name \in Usernames \cup {""} /\ Arrive(s, RegisterReq(name, pw, role))

ArriveCreateAdmin(s, name, pw, allow) == name \in Usernames /\ Arrive(s, CreateAdminReq(name, pw, allow))

ArriveUpdateProfile(s, uid, name) ==
  uid \in DOMAIN users /\ Arrive(s, UpdateProfileReq(uid, name))

ArriveChangePassword(s, uid, current, new) ==
  uid \in DOMAIN users /\ Arrive(s, ChangePasswordReq(uid, current, new))

\* Account requests in flight together.
NextUsers ==
  \/ \E s \in Slots, a \in Usernames \cup {""}, pw \in Passwords, ro \in {"", "admin"} :
       ArriveRegister(s, a, pw, ro)
  \/ \E s \in Slots, a \in Usernames, pw \in Passwords, al \in BOOLEAN :
       ArriveCreateAdmin(s, a, pw, al)
  \/ \E s \in Slots, i \in 1..MaxUsers, a \in Usernames \cup {""} : ArriveUpdateProfile(s, i, a)
  \/ \E s \in Slots : Resume(s)

SpecUsers == InitAuth /\ [][NextUsers]_vars

\* Change-password requests, and logins, in flight together.
NextPassword ==
  \/ \E s \in Slots, i \in 1..MaxUsers, cur, new \in PasswordInputs :
       ArriveChangePassword(s, i, cur, new)
  \/ \E s \in Slots, u \in Usernames, pw \in Passwords : ArriveLogin(s, u, pw)
  \/ \E s \in Slots : Resume(s)

SpecPassword == InitAuth /\ [][NextPassword]_vars

\* The cart routes with a product whose stock has two digits.
InitBig ==
  /\ products = [p \in Products |->
                   IF p = "p1" THEN [exists |-> TRUE, stock |-> BigStock] ELSE NoProduct]
  /\ carts = <<>>
  /\ sessions = <<>>
  /\ tokens = {"u1"}
  /\ req = [s \in Slots |-> Idle]
  /\ resp = NoResp
  /\ lockouts = [a \in Usernames |-> NoLockout] /\ users = InitUsers
  /\ now = 0

SpecBig == InitBig /\ [][Next]_vars

-----------------------------------------------------------------------------
(* Claims about the cart routes (Spec).                                    *)

\* The lines of a cart whose product document still exists, in order.
LiveLines(items) == SelectSeq(items, LAMBDA it : products[it.product].exists)
\* The quantity of the (first) line of product p, 0 when there is none.
QuantityOf(items, p) ==
  IF \E j \in DOMAIN items : items[j].product = p
    THEN items[CHOOSE j \in DOMAIN items :
                 items[j].product = p /\ \A k \in 1..(j - 1) : items[k].product # p].quantity
    ELSE 0
CartItems(cs, c) == IF c = 0 THEN <<>> ELSE cs[c].items

\* C1: in every reachable state, an add-to-cart call served on its own that
\* answers 200 leaves every line of the added product with a quantity of at
\* most the product's stock as that call read it, and a call for an existing
\* product whose requested quantity, or whose existing line quantity plus
\* requested quantity, exceeds the stock answers 400.
C1_AddWithinStock ==
  \A u \in tokens, c \in 0..MaxCarts, p \in Products, q \in QtyInputs :
    \A o \in {Run(DB, AddToCartReq(u, c, p, q))} :
      LET old == CartItems(carts, FindCart(DB, u, c))
          new == CartItems(o.d.carts, o.r.cid)
      IN /\ o.r.status = 200 =>
              /\ o.r.stock = products[p].stock
              /\ \E j \in DOMAIN new : new[j].product = p
              /\ \A j \in DOMAIN new : new[j].product = p => new[j].quantity <= o.r.stock
         /\ ( /\ products[p].exists /\ q.kind # "undef"
              /\ \/ q.n > products[p].stock
                 \/ QuantityOf(old, p) + q.n > products[p].stock )
            => o.r.status = 400

\* An add-to-cart call has answered 200 and left a line of quantity 2 or more
\* at exactly the stock of its product.
C1_Witness ==
  /\ resp.op = "addToCart" /\ resp.status = 200
  /\ \E c \in DOMAIN carts : \E j \in DOMAIN carts[c].items :
        /\ carts[c].items[j].quantity = products[carts[c].items[j].product].stock
        /\ carts[c].items[j].quantity >= 2

\* C7: in every reachable state, get-cart served on a cart answers 200 with
\* exactly the lines whose product exists, stores exactly those lines with
\* their quantities (the lines of deleted products are gone from the stored
\* cart), and a second get-cart returns the same lines.
C7_GetCartDropsDeleted ==
  \A u \in tokens, c \in 0..MaxCarts :
    \A o \in {Run(DB, GetCartReq(u, c))} :
      LET cid == FindCart(DB, u, c)
      IN cid # 0 =>
           /\ o.r.status = 200
           /\ o.r.lines = LiveLines(carts[cid].items)
           /\ o.d.carts = [carts EXCEPT ![cid].items = LiveLines(carts[cid].items)]
           /\ o.d.products = products
           /\ Run(o.d, GetCartReq(u, c)).r.lines = o.r.lines
           /\ Run(o.d, GetCartReq(u, c)).d = o.d

\* Get-cart has just removed a line of a deleted product and kept another line.
C7_Witness ==
  /\ resp.op = "getCart" /\ resp.status = 200 /\ resp.msg = "cleaned"
  /\ \E c \in DOMAIN carts : Len(carts[c].items) = 1
  /\ \E p \in Products : ~products[p].exists

\* C8: in every reachable state, an update-line-quantity call answers 200
\* only when the new quantity is >= 1 and <= the stock of the line's product,
\* and then the stored cart is the old one with exactly that quantity on
\* that line; a call for a line of the user's cart whose product exists and
\* whose new quantity exceeds the stock answers 400; every call that does
\* not answer 200 leaves the carts unchanged.
C8_UpdateWithinStock ==
  \A u \in tokens, l \in 1..MaxLineId, q \in QtyInputs :
    \A o \in {Run(DB, UpdateCartItemReq(u, l, q))} :
      LET cid == FindCartByItem(DB, u, l)
          items == CartItems(carts, cid)
          i == ItemById(items, l)
      IN /\ o.r.status = 200 =>
              /\ cid # 0 /\ q.kind # "undef"
              /\ q.n >= 1 /\ q.n <= products[items[i].product].stock
              /\ o.d.carts = [carts EXCEPT ![cid].items[i].quantity = q.n]
         /\ (cid # 0 /\ q.kind # "undef" /\ products[items[i].product].exists
                /\ q.n > products[items[i].product].stock) => o.r.status = 400
         /\ o.r.status # 200 => o.d.carts = carts
         /\ o.d.products = products

\* An update above the stock has just been refused with 400 while the line
\* is in the cart.
C8_Witness ==
  /\ resp.op = "updateCartItem" /\ resp.status = 400 /\ resp.msg = "Insufficient stock"
  /\ \E c \in DOMAIN carts : Len(carts[c].items) >= 1

\* C10: in every reachable state every cart holds at most one line per
\* product, an add-to-cart that answers 200 for a product already in the cart
\* leaves the cart as it was but for that line's quantity, increased by the
\* requested amount, and one for a product not in the cart appends exactly
\* one line with the requested quantity.
C10_OneLinePerProduct ==
  /\ \A c \in DOMAIN carts : \A i, j \in DOMAIN carts[c].items :
        carts[c].items[i].product = carts[c].items[j].product => i = j
  /\ \A u \in tokens, c \in 0..MaxCarts, p \in Products, q \in QtyInputs :
       \A o \in {Run(DB, AddToCartReq(u, c, p, q))} :
         LET old == CartItems(carts, FindCart(DB, u, c))
             new == CartItems(o.d.carts, o.r.cid)
             i == FindIndex(old, p)
         IN o.r.status = 200 =>
              IF i # 0
                THEN new = [old EXCEPT ![i].quantity = @ + q.n]
                ELSE /\ Len(new) = Len(old) + 1
                     /\ SubSeq(new, 1, Len(old)) = old
                     /\ new[Len(new)].product = p
                     /\ new[Len(new)].quantity = q.n

\* C9: in every reachable state no user owns more than one cart.
C9_OneCartPerUser ==
  \A u \in Users : Cardinality({c \in DOMAIN carts : carts[c].user = u}) <= 1

Num(k) == [kind |-> "num", n |-> k]

\* C11: in every reachable state, two add-to-cart calls of a user who has a
\* cart, for the same product, that both read the cart and the stock before
\* either saves, both answer 200, and the stored line ends at the quantity
\* read plus the second writer's amount only: the first writer's increment is
\* lost, which is the result of no serial order in which both calls succeed.
C11_LostUpdate ==
  \A u \in tokens, p \in Products, q1, q2 \in 1..MaxQty :
    LET c == FindCart(DB, u, 0)
        old == QuantityOf(CartItems(carts, c), p)
        r1 == AddToCartReq(u, 0, p, Num(q1))
        r2 == AddToCartReq(u, 0, p, Num(q2))
    IN \A a \in {RunUntil(DB, r1, "save")}, b \in {RunUntil(DB, r2, "save")} :
         (c # 0 /\ a.r.pc = "save" /\ b.r.pc = "save") =>
           \A fa \in {StepOp(DB, a.r)}, s1 \in {Run(DB, r1)}, t1 \in {Run(DB, r2)} :
             \A fb \in {StepOp(fa.d, b.r)}, s2 \in {Run(s1.d, r2)}, t2 \in {Run(t1.d, r1)} :
               /\ fa.r.status = 200 /\ fb.r.status = 200
               /\ QuantityOf(fb.d.carts[c].items, p) = old + q2
               /\ (s1.r.status = 200 /\ s2.r.status = 200) =>
                    QuantityOf(s2.d.carts[c].items, p) = old + q1 + q2
               /\ (t1.r.status = 200 /\ t2.r.status = 200) =>
                    QuantityOf(t2.d.carts[c].items, p) = old + q1 + q2

\* One add-to-cart call has just answered 200 while another one of the same
\* user for the same product waits at its save with the cart it read before:
\* its save will overwrite the line the first call wrote.
C11_Witness ==
  /\ resp.op = "addToCart" /\ resp.status = 200
  /\ \E s \in Slots :
       /\ req[s].op = "addToCart" /\ req[s].pc = "save" /\ ~req[s].isNew
       /\ QuantityOf(carts[req[s].cid].items, req[s].pid) >= 1
       /\ QuantityOf(req[s].items, req[s].pid) - ToNumber(req[s].qty)
            < QuantityOf(carts[req[s].cid].items, req[s].pid)

-----------------------------------------------------------------------------
(* Claims about checkout and payment (SpecPay).                            *)

Min(a, b) == IF a <= b THEN a ELSE b
\* The lines of a cart that checkout retains: product present, stock > 0.
InStock(items) ==
  SelectSeq(items, LAMBDA it : products[it.product].exists /\ products[it.product].stock > 0)
\* The positions of the lines that checkout clamps or drops.
Adjusted(items) ==
  {j \in DOMAIN items : \/ ~products[items[j].product].exists
                        \/ products[items[j].product].stock < items[j].quantity}

\* C2: in every reachable state, when a checkout session is created for the
\* cart, paid, and the payment-success callback then runs with nothing else
\* in between, every product on a line of the session ends with its stock
\* reduced by the session line's quantity and the cart ends with no lines.
C2_PaymentDecrementsStock ==
  \A u \in tokens, c \in 0..MaxCarts :
    \A o \in {Run(DB, CheckoutReq(u, c))} :
      o.r.status = 200 =>
        \A o2 \in {Run(MarkPaid(o.d, o.r.sid), PaymentSuccessReq(u, o.r.sid))} :
          LET lines == o.d.sessions[o.r.sid].lines
          IN /\ \A j \in DOMAIN lines :
                  o2.d.products[lines[j].product].stock =
                    products[lines[j].product].stock - lines[j].quantity
             /\ o2.d.carts[o.r.cid].items = <<>>

\* C4: in every reachable state, a checkout of a cart with at least one line
\* whose product exists with stock > 0 answers 200 and creates a session whose
\* lines are those lines in order, each with the smaller of its cart quantity
\* and the stock; one advisory is returned for every clamped line and every
\* dropped line, naming the stock left for a clamped line.
C4_CheckoutClamps ==
  \A u \in tokens, c \in 0..MaxCarts :
    \A o \in {Run(DB, CheckoutReq(u, c))} :
      LET cid == FindCart(DB, u, c)
          items == CartItems(carts, cid)
          kept == InStock(items)
      IN Len(kept) > 0 =>
           /\ o.r.status = 200
           /\ o.d.sessions =
                Append(sessions,
                       [user |-> u, cart |-> cid, paid |-> FALSE,
                        lines |-> [j \in DOMAIN kept |->
                                     [product |-> kept[j].product,
                                      quantity |-> Min(kept[j].quantity,
                                                       products[kept[j].product].stock)]]])
           /\ Len(o.r.issues) = Cardinality(Adjusted(items))
           /\ \A j \in Adjusted(items) : \E k \in DOMAIN o.r.issues :
                 /\ o.r.issues[k].product = items[j].product
                 /\ o.r.issues[k].kind =
                      IF ~products[items[j].product].exists THEN "not found"
                      ELSE IF products[items[j].product].stock = 0 THEN "out of stock"
                      ELSE "only"
                 /\ o.r.issues[k].kind = "only" =>
                      o.r.issues[k].n = products[items[j].product].stock
           /\ (o.r.msg = "Some items were adjusted") <=> (Adjusted(items) # {})

\* A checkout has just succeeded with an advisory, and its session holds a
\* line with a smaller quantity than the cart line of that product.
C4_Witness ==
  /\ resp.op = "createCheckoutSession" /\ resp.status = 200
  /\ resp.msg = "Some items were adjusted"
  /\ \E i \in DOMAIN sessions : \E j \in DOMAIN sessions[i].lines :
        /\ ~sessions[i].paid
        /\ sessions[i].lines[j].quantity <
             QuantityOf(carts[sessions[i].cart].items, sessions[i].lines[j].product)

\* C5: in every reachable state, a checkout with no cart or an empty cart
\* answers 400 and changes nothing; a checkout of a cart all of whose lines
\* are out of stock or without product answers 400 with one advisory per
\* line and creates no session; a checkout that creates a session has found
\* a line whose product exists with stock > 0.
C5_CheckoutNeedsALine ==
  \A u \in tokens, c \in 0..MaxCarts :
    \A o \in {Run(DB, CheckoutReq(u, c))} :
      LET cid == FindCart(DB, u, c)
          items == CartItems(carts, cid)
      IN /\ items = <<>> => o.r.status = 400 /\ o.r.msg = "Cart is empty" /\ o.d = DB
         /\ (items # <<>> /\ InStock(items) = <<>>) =>
              /\ o.r.status = 400 /\ o.r.msg = "No items available for checkout"
              /\ Len(o.r.issues) = Len(items)
              /\ o.d = DB
         /\ o.d.sessions # sessions => InStock(items) # <<>>

\* A checkout of a cart with lines has just been refused because none of
\* them is available, and there is no session.
C5_Witness ==
  /\ resp.op = "createCheckoutSession" /\ resp.status = 400
  /\ resp.msg = "No items available for checkout"
  /\ sessions = <<>>
  /\ \E c \in DOMAIN carts : Len(carts[c].items) >= 1

-----------------------------------------------------------------------------
(* Claims about accounts (SpecUsers).                                      *)

\* C12: in every reachable state no two users have the same username, and a
\* register, create-admin or profile-update request with a username held by
\* another user, served from that state, answers 400 and leaves the users
\* unchanged.
C12_UsernamesUnique ==
  /\ \A i, j \in DOMAIN users : users[i].username = users[j].username => i = j
  /\ \A a \in Usernames, pw \in Passwords :
       (\E i \in DOMAIN users : users[i].username = a) =>
         /\ \A o \in {Run(DB, RegisterReq(a, pw, ""))} : o.r.status = 400 /\ o.d = DB
         /\ \A o \in {Run(DB, CreateAdminReq(a, pw, TRUE))} : o.r.status = 400 /\ o.d = DB
  /\ \A a \in Usernames, i \in DOMAIN users :
       (\E j \in DOMAIN users : j # i /\ users[j].username = a) =>
         \A o \in {Run(DB, UpdateProfileReq(i, a))} : o.r.status = 400 /\ o.d = DB

\* Two requests for the same free username were in flight together: the
\* later write has just been refused, and one user holds the name.
C12_Witness ==
  /\ resp.op \in {"register", "createAdmin", "updateProfile"}
  /\ resp.status = 500
  /\ Len(users) >= 2

-----------------------------------------------------------------------------
(* Claims about login (SpecAuth).                                          *)

\* The store after n login attempts with a wrong password for username u,
\* served one after the other.
RECURSIVE AfterFailedLogins(_, _, _)
AfterFailedLogins(d, u, n) ==
  IF n = 0 THEN d ELSE AfterFailedLogins(Run(d, LoginReq(u, "wrong1")).d, u, n - 1)

\* In every state: MaxAttempts failed attempts in a row leave the account
\* locked, and a login for a locked account answers 423 whatever the
\* password, changing nothing.
C6_LockedAnswers423 ==
  \A u \in Usernames :
    /\ IsLocked(AfterFailedLogins(DB, u, MaxAttempts), u)
    /\ lockouts[u].attempts = 0 =>
         AfterFailedLogins(DB, u, MaxAttempts).lockouts[u].lockedUntil = now + LockMinutes
    /\ IsLocked(DB, u) =>
         \A pw \in Passwords : \A o \in {Run(DB, LoginReq(u, pw))} :
           o.r.status = 423 /\ o.d = DB

\* In every step: an account that is locked stays locked until its lock
\* expires.
C6_LockStays ==
  \A u \in Usernames :
    IsLocked(DB, u) =>
      \/ lockouts'[u].lockedUntil > now'
      \/ now' >= lockouts[u].lockedUntil

\* C6: after MaxAttempts consecutive failed login attempts for a username,
\* every login attempt for it that reaches the lockout check before the lock
\* expires answers 423 without a look at the credentials: the failures lock
\* the account, a locked account answers 423 whatever the password, and the
\* lock stays until it expires.
C6_LockoutAfterFailures == [](C6_LockedAnswers423) /\ [][C6_LockStays]_vars

\* C3: in every reachable state every product's stock is >= 0.
C3_StockNonNegative == \A p \in Products : products[p].stock >= 0

-----------------------------------------------------------------------------
(* Removing, clearing and failed adds                                      *)

\* C13: in every reachable state, a remove-line call for a line id that no
\* cart of the calling user holds answers 404 and leaves every cart unchanged.
C13_RemoveAbsentLine404 ==
  \A u \in tokens, l \in 1..MaxLineId :
    \A o \in {Run(DB, RemoveFromCartReq(u, l))} :
      FindCartByItem(DB, u, l) = 0 => (o.r.status = 404 /\ o.d.carts = carts)

\* C14: in every reachable state, a confirmed clear-cart call of a user who
\* has a cart answers 200, keeps the cart record (same number of carts, same
\* owner) with no lines, and changes nothing else; a second clear right after
\* it answers 200 as well and leaves the store exactly as the first one did;
\* clearing a cart that is already empty answers 200 and changes nothing.
C14_ClearIdempotent ==
  \A u \in tokens, cartId \in 0..MaxCarts :
    \A o1 \in {Run(DB, ClearCartReq(u, cartId, TRUE))} :
      \A o2 \in {Run(o1.d, ClearCartReq(u, cartId, TRUE))} :
        LET c == FindCart(DB, u, cartId)
        IN c # 0 =>
             /\ o1.r.status = 200 /\ o2.r.status = 200
             /\ o1.d = [DB EXCEPT !.carts[c].items = <<>>]
             /\ Len(o1.d.carts) = Len(carts) /\ o1.d.carts[c].user = u
             /\ o2.d = o1.d /\ o2.r.msg = o1.r.msg
             /\ carts[c].items = <<>> => o1.d = DB

\* A clear has just answered 200 and the user's cart is still stored, empty.
C14_Witness ==
  /\ resp.op = "clearCart" /\ resp.status = 200
  /\ \E c \in DOMAIN carts : carts[c].user \in tokens /\ carts[c].items = <<>>

\* C15: in every reachable state, an add-to-cart call that does not answer
\* 200 leaves the whole store as it was (no cart created, no line changed);
\* with a numeric quantity >= 1 it answers 404 when the product does not
\* exist, and 400 when the quantity, or the quantity plus the one already in
\* the cart, exceeds the stock.
C15_FailedAddChangesNothing ==
  \A u \in tokens, c \in 0..MaxCarts, p \in Products, q \in QtyInputs :
    \A o \in {Run(DB, AddToCartReq(u, c, p, q))} :
      LET cid == FindCart(DB, u, c)
          old == QuantityOf(CartItems(carts, cid), p)
      IN /\ o.r.status # 200 => o.d = DB
         /\ (q.kind = "num" /\ q.n >= 1 /\ ~products[p].exists) => o.r.status = 404
         /\ (q.kind = "num" /\ q.n >= 1 /\ products[p].exists
               /\ old + q.n > products[p].stock) => o.r.status = 400

\* An add has just been refused and the store holds no cart at all.
C15_Witness ==
  /\ resp.op = "addToCart" /\ resp.status \in {400, 404}
  /\ carts = <<>>

-----------------------------------------------------------------------------
(* The cart summary                                                        *)

\* The sum of f over the finite set S.
RECURSIVE SumOver(_, _)
SumOver(f, S) ==
  IF S = {} THEN 0
  ELSE LET x == CHOOSE y \in S : TRUE IN f[x] + SumOver(f, S \ {x})

-----------------------------------------------------------------------------
(* The payment processor's webhook                                         *)

\* C16: in every reachable state, a webhook call, whatever its event, its
\* signature and the configuration, leaves the stock of every product, every
\* cart and the rest of the store as they were; it answers 200 exactly when
\* the secret is configured and the signature is accepted, 400 otherwise.
C16_WebhookChangesNothing ==
  \A secret, sig \in BOOLEAN, e \in EventTypes, i \in 1..MaxSessions :
    \A o \in {Run(DB, HandleWebhookReq(secret, sig, e, i))} :
      /\ o.d.products = products /\ o.d.carts = carts /\ o.d = DB
      /\ o.r.status = IF secret /\ sig THEN 200 ELSE 400

\* The webhook of a paid session has just been accepted, and the session's
\* cart still holds the lines and the product its stock.
C16_Witness ==
  /\ resp.op = "handleWebhook" /\ resp.status = 200
  /\ \E i \in DOMAIN sessions :
       /\ sessions[i].paid
       /\ sessions[i].cart \in DOMAIN carts
       /\ carts[sessions[i].cart].items # <<>>

-----------------------------------------------------------------------------
(* Confirmation headers                                                    *)

\* C20: in every reachable state, an admin's product delete without
\* X-Confirm-Delete: true answers 400 and leaves the store, the product
\* included, as it was; a signed-in user's clear-cart without
\* X-Confirm-Clear: true leaves the store, the cart included, as it was and
\* answers 400 (403 only when the body names a cart id that is not a cart
\* of the user, which is refused before the header is looked at).
C20_ConfirmationRequired ==
  /\ \A p \in Products :
       \A o \in {Run(DB, DeleteProductReq(p, FALSE))} :
         o.r.status = 400 /\ o.d = DB
  /\ \A u \in tokens, c, b \in 0..MaxCarts :
       \A o \in {Run(DB, ClearCartBodyReq(u, c, b, FALSE))} :
         /\ o.d = DB
         /\ o.r.status = IF b # 0 /\ FindCart(DB, u, b) = 0 THEN 403 ELSE 400

\* A delete without the header has just been refused while the catalogue
\* holds a product, and a cart holds a line.
C20_Witness ==
  /\ resp.op = "deleteProduct" /\ resp.status = 400
  /\ \E p \in Products : products[p].exists
  /\ \E c \in DOMAIN carts : carts[c].items # <<>>

-----------------------------------------------------------------------------
(* A payment-success callback that fails half-way                          *)

\* C17: in every reachable state, a payment-success callback that has
\* already decremented the stock of at least one line and whose next
\* decrement meets a product deleted in the meantime answers 500 and changes
\* nothing: the stock it has written stays decremented (each line it
\* processed is still at most the initial stock minus the line's quantity),
\* and every cart keeps the lines it holds; the same holds for the catch
\* when it is the save of the emptied cart that throws.
C17_NoRollback ==
  \A s \in Slots :
    LET r == req[s]
        kept(o) == /\ o.r.pc = "done" /\ o.r.status = 500
                   /\ o.d.products = products /\ o.d.carts = carts
                   /\ \A j \in DOMAIN r.lines :
                        products[r.lines[j].product].exists =>
                          o.d.products[r.lines[j].product].stock
                            <= MaxStock - r.lines[j].quantity
    IN /\ (/\ r.op = "handlePaymentSuccess" /\ r.pc = "decrement"
           /\ r.lines # <<>> /\ ~products[r.items[r.k].product].exists) =>
            kept(StepOp(DB, r))
       /\ (r.op = "handlePaymentSuccess" /\ r.pc = "save" /\ r.lines # <<>>) =>
            kept(PaymentCatch(DB, r))

\* The callback has just answered 500 after decrementing the first product:
\* its stock is below the initial one, the second product is gone, and the
\* cart still holds both lines.
C17_Witness ==
  /\ resp.op = "handlePaymentSuccess" /\ resp.status = 500
  /\ products["p1"].exists /\ products["p1"].stock < MaxStock
  /\ ~products["p2"].exists
  /\ Len(carts) = 1 /\ Len(carts[1].items) = 2

-----------------------------------------------------------------------------
(* Changing the password                                                   *)

\* C19: in every reachable state, a change-password request of a signed-in
\* user whose new password equals the supplied current password answers 400
\* in its first step, before the user is read and the hash compared, and
\* leaves the store, the stored password included, as it was, whether or
\* not the supplied password is the right one.
C19_SamePasswordRejected ==
  \A uid \in DOMAIN users, pw \in PasswordInputs :
    \A o \in {StepOp(DB, ChangePasswordReq(uid, pw, pw))} :
      /\ o.r.pc = "done" /\ o.r.status = 400
      /\ o.d = DB /\ o.d.users[uid].password = users[uid].password

\* The request has just been refused because the two passwords are equal,
\* after an earlier request had changed the stored password.
C19_Witness ==
  /\ resp.op = "changePassword" /\ resp.status = 400
  /\ resp.msg = "New password must be different from current password"
  /\ \E i \in DOMAIN users : users[i].password = HashSync("wrong1")

-----------------------------------------------------------------------------
(* Creating a product                                                      *)

\* C21: in every reachable state, a product create by the admin whose price
\* is a number (or numeric string) <= 0, or whose stock is a number (or
\* numeric string) < 0, answers 400 and leaves the store as it was, no
\* product created, whatever name, description, category, image and the
\* other of the two fields are.
C21_BadPriceOrStockRejected ==
  \A p \in Products, b \in ProductBodies :
    (NotPositive(b.price) \/ Negative(b.stock)) =>
      \A o \in {Run(DB, AddProductReq(p, b))} :
        o.r.status = 400 /\ o.d = DB

\* A create has just been refused by the validation while the catalogue
\* holds no product.
C21_Witness ==
  /\ resp.op = "addProduct" /\ resp.status = 400 /\ resp.msg = "Validation failed"
  /\ \A p \in Products : ~products[p].exists

-----------------------------------------------------------------------------
(* Line quantities                                                         *)

\* Quantities that are not integers >= 1: -1, 0, 0.5, 1.5, "0.5".
BadQuantities ==
  {[kind |-> "num", n |-> 0 - 1], [kind |-> "num", n |-> 0], [kind |-> "frac", n |-> 0],
   [kind |-> "frac", n |-> 1], [kind |-> "str", n |-> 0]}

\* C22: in every state reachable by add, get, update, remove, clear,
\* checkout and payment-success calls, every stored cart line has a whole
\* quantity >= 1, and an add or an update that asks for a quantity that is
\* not an integer >= 1 answers 400 and leaves the carts as they were.
C22_QuantityAtLeastOne ==
  /\ \A c \in DOMAIN carts : \A i \in DOMAIN carts[c].items :
       carts[c].items[i].quantity \in Nat \ {0}
  /\ \A u \in tokens, q \in BadQuantities :
       /\ \A c \in 0..MaxCarts, p \in Products :
            \A o \in {Run(DB, AddToCartReq(u, c, p, q))} :
              o.r.status = 400 /\ o.d.carts = carts
       /\ \A l \in 1..MaxLineId :
            \A o \in {Run(DB, UpdateCartItemReq(u, l, q))} :
              o.r.status = 400 /\ o.d.carts = carts

\* An update has just been accepted and a line of quantity 1 is stored.
C22_Witness ==
  /\ resp.op = "updateCartItem" /\ resp.status = 200
  /\ \E c \in DOMAIN carts : \E i \in DOMAIN carts[c].items : carts[c].items[i].quantity = 1

-----------------------------------------------------------------------------
(* Replayed payment-success callbacks                                      *)

\* C23: in every reachable state and for every paid session, once a
\* payment-success callback for the session has answered 200, a second
\* callback with the same session id changes no product's stock and no
\* cart, whether it follows at once or after the user has added a product
\* to the cart again.
C23_ReplayChangesNothing ==
  \A u \in tokens, i \in DOMAIN sessions :
    \A o1 \in {Run(DB, PaymentSuccessReq(u, i))} :
      o1.r.status = 200 =>
        /\ \A o2 \in {Run(o1.d, PaymentSuccessReq(u, i))} :
             o2.d.products = o1.d.products /\ o2.d.carts = o1.d.carts
        /\ \A p \in Products, q \in 1..MaxQty :
             \A a \in {Run(o1.d, AddToCartReq(u, 0, p, Num(q)))} :
               \A o2 \in {Run(a.d, PaymentSuccessReq(u, i))} :
                 o2.d.products = a.d.products /\ o2.d.carts = a.d.carts

-----------------------------------------------------------------------------
(* Carts of other users                                                    *)

\* The carts of d that u does not own are as they are in the store.
OthersUntouched(d, u) ==
  /\ Len(d.carts) >= Len(carts)
  /\ \A c \in DOMAIN carts : carts[c].user # u => d.carts[c] = carts[c]

\* C24: in every reachable state, whatever add, update, remove, clear or
\* payment-success request a signed-in user sends, every cart owned by
\* another user is afterwards as it was.
C24_OnlyOwnCart ==
  \A u \in tokens :
    /\ \A c \in DOMAIN carts \cup {0}, p \in Products, q \in QtyInputs :
         OthersUntouched(Run(DB, AddToCartReq(u, c, p, q)).d, u)
    /\ \A l \in 1..MaxLineId, q \in QtyInputs :
         OthersUntouched(Run(DB, UpdateCartItemReq(u, l, q)).d, u)
    /\ \A l \in 1..MaxLineId : OthersUntouched(Run(DB, RemoveFromCartReq(u, l)).d, u)
    /\ \A c, b \in DOMAIN carts \cup {0} :
         OthersUntouched(Run(DB, ClearCartBodyReq(u, c, b, TRUE)).d, u)
    /\ \A i \in DOMAIN sessions \cup {0} :
         OthersUntouched(Run(DB, PaymentSuccessReq(u, i)).d, u)

-----------------------------------------------------------------------------
(* Payment-success callbacks that must do nothing                          *)

\* C25: in every reachable state, a payment-success callback without a
\* session id or for an unpaid session answers 400, one for a paid session
\* whose cart is not in the database answers 404, and each leaves the whole
\* store as it was; a callback changes the store only for a paid session.
C25_OnlyPaidSessions ==
  \A u \in tokens :
    /\ \A i \in 0..MaxSessions :
         \A o \in {Run(DB, PaymentSuccessReq(u, i))} :
           /\ i = 0 => o.r.status = 400 /\ o.d = DB
           /\ (i \in DOMAIN sessions /\ ~sessions[i].paid) => o.r.status = 400 /\ o.d = DB
           /\ o.d # DB => i \in DOMAIN sessions /\ sessions[i].paid
    /\ \A i \in DOMAIN sessions :
         sessions[i].paid =>
           \A o \in {Run([DB EXCEPT !.carts = <<>>], PaymentSuccessReq(u, i))} :
             o.r.status = 404 /\ o.d = [DB EXCEPT !.carts = <<>>]

\* A callback for a session that has not been paid has just been refused;
\* the session's cart holds its lines.
C25_Witness ==
  /\ resp.op = "handlePaymentSuccess" /\ resp.status = 400
  /\ resp.msg = "Payment not completed"
  /\ \E i \in DOMAIN sessions :
       /\ ~sessions[i].paid
       /\ sessions[i].cart \in DOMAIN carts /\ carts[sessions[i].cart].items # <<>>

-----------------------------------------------------------------------------
(* Who becomes an admin                                                    *)

\* The users of d that the store does not hold yet.
NewUsers(d) == {d.users[i] : i \in (Len(users) + 1)..Len(d.users)}

\* C26: in every reachable state, every user that a register request
\* creates has role 'user', whatever role the body names, a create-admin
\* request while ALLOW_ADMIN_CREATION is not 'true' creates no user, and no
\* request changes the role of a user already stored.
C26_AdminOnlyByCreateAdmin ==
  /\ \A a \in Usernames, pw \in Passwords, ro \in {"", "user", "admin"} :
       \A o \in {Run(DB, RegisterReq(a, pw, ro))} :
         /\ \A n \in NewUsers(o.d) : n.role = "user"
         /\ \A i \in DOMAIN users : o.d.users[i].role = users[i].role
  /\ \A a \in Usernames, pw \in Passwords :
       \A o \in {Run(DB, CreateAdminReq(a, pw, FALSE))} : o.d.users = users

-----------------------------------------------------------------------------
(* What a checkout leaves behind                                           *)

\* C27: in every reachable state, a checkout call, whatever it answers,
\* leaves every product and every cart as they were (all lines, all
\* quantities); the only thing it may add is the payment processor's
\* session.
C27_CheckoutWritesNothing ==
  \A u \in tokens, c \in 0..MaxCarts :
    \A o \in {Run(DB, CheckoutReq(u, c))} :
      /\ o.d.products = products /\ o.d.carts = carts
      /\ [o.d EXCEPT !.sessions = sessions] = DB
      /\ o.r.status # 200 => o.d = DB

\* A checkout that clamped or dropped a line has just answered 200, and the
\* cart still holds a line above its product's stock or of a deleted product.
C27_Witness ==
  /\ resp.op = "createCheckoutSession" /\ resp.status = 200
  /\ resp.msg = "Some items were adjusted"
  /\ \E c \in DOMAIN carts : Adjusted(carts[c].items) # {}

-----------------------------------------------------------------------------
(* The failure count of a username                                         *)

\* C28: in every reachable state, a username carries a lock only with at
\* least MaxAttempts failures on its record; a login answered 200 removes
\* the record, after which fewer than MaxAttempts failed logins in a row do
\* not lock the username and MaxAttempts do; a login answered 401 adds one
\* to the count; a login answered 423 changes neither count nor lock.
C28_SuccessClearsFailures ==
  \A u \in Usernames :
    /\ lockouts[u].lockedUntil # 0 => lockouts[u].attempts >= MaxAttempts
    /\ \A pw \in Passwords :
         \A o \in {Run(DB, LoginReq(u, pw))} :
           /\ o.r.status \in {200, 401, 423}
           /\ o.r.status = 200 =>
                /\ o.d.lockouts[u] = NoLockout
                /\ \A k \in 1..(MaxAttempts - 1) :
                     \A f \in {AfterFailedLogins(o.d, u, k)} :
                       ~IsLocked(f, u) /\ f.lockouts[u].attempts = k
                /\ IsLocked(AfterFailedLogins(o.d, u, MaxAttempts), u)
           /\ o.r.status = 401 => o.d.lockouts[u].attempts = lockouts[u].attempts + 1
           /\ o.r.status = 423 => o.d.lockouts = lockouts

\* A login has just succeeded for alice, whose record is gone, while
\* failures stay on record for the other username.
C28_Witness ==
  /\ resp.op = "login" /\ resp.status = 200
  /\ lockouts["alice"] = NoLockout
  /\ lockouts["mallory"].attempts >= 1

\* C29: in every reachable state, for a username whose lock has expired
\* and whose record has not been cleared by a successful login, the count
\* is still at least MaxAttempts, and one more failed login answers 401 and
\* locks it again until LockMinutes from now; a successful login instead
\* clears the record.
C29_ExpiryKeepsCount ==
  \A u \in Usernames :
    (lockouts[u].lockedUntil # 0 /\ ~IsLocked(DB, u)) =>
      /\ lockouts[u].attempts >= MaxAttempts
      /\ \A o \in {Run(DB, LoginReq(u, "wrong1"))} :
           /\ o.r.status = 401
           /\ o.d.lockouts[u] = [attempts |-> lockouts[u].attempts + 1,
                                 lockedUntil |-> now + LockMinutes]
      /\ \A o \in {Run(DB, LoginReq(u, "right1"))} :
           o.r.status = 200 => o.d.lockouts[u] = NoLockout

\* A username has just been locked again by a single failure after its
\* first lock had run out.
C29_Witness ==
  /\ resp.op = "login" /\ resp.status = 401
  /\ \E u \in Usernames :
       /\ lockouts[u].attempts = MaxAttempts + 1
       /\ lockouts[u].lockedUntil = now + LockMinutes
       /\ now >= LockMinutes

-----------------------------------------------------------------------------
(* Cart validation against checkout                                        *)

\* The lines of a stored cart as a checkout session lists them.
SessionLines(items) ==
  [j \in DOMAIN items |-> [product |-> items[j].product, quantity |-> items[j].quantity]]

\* C30: in every reachable state and for every signed-in user, the validate
\* call answers 200 and changes nothing, and it reports valid = true exactly
\* when a checkout of the same cart in the same state answers 200 with every
\* cart line at its stored quantity and no advisory; it reports
\* valid = false exactly when that checkout answers 400 (cart empty, nothing
\* available) or drops or clamps at least one line.
C30_ValidateAgreesWithCheckout ==
  \A u \in tokens :
    \A v \in {Run(DB, ValidateCartReq(u))}, o \in {Run(DB, CheckoutReq(u, 0))} :
      LET c == FindCart(DB, u, 0)
          items == CartItems(carts, c)
      IN /\ v.r.status = 200 /\ v.d = DB
         /\ v.r.valid <=> /\ o.r.status = 200
                          /\ o.r.lines = SessionLines(items)
                          /\ o.r.issues = <<>>
         /\ ~v.r.valid <=> \/ o.r.status = 400
                           \/ o.r.issues # <<>>
                           \/ Len(o.r.lines) < Len(items)
         /\ Len(v.r.issues) = Len(o.r.issues)

\* A validation has just reported issues for a cart with a line above its
\* product's stock or of a deleted product.
C30_Witness ==
  /\ resp.op = "validateCart" /\ resp.status = 200
  /\ resp.msg = "Cart has issues that need to be resolved"
  /\ \E c \in DOMAIN carts : Adjusted(carts[c].items) # {}

====
